---- MODULE Spec2Model ----
(***************************************************************************)
(* Translation core of the 9router gateway.                                *)
(*                                                                         *)
(*   - openaiToClaudeResponse  (OpenAI chunks -> Claude events, stateful)  *)
(*   - claudeToOpenAIResponse  (Claude events -> OpenAI chunks, stateful)  *)
(*   - geminiToOpenAIResponse  (Gemini chunks -> OpenAI chunks, stateful)  *)
(*   - openaiToClaude          (OpenAI request -> Claude request, pure)    *)
(*   - openaiToGeminiCLI       (OpenAI request -> Gemini request, pure;    *)
(*                              calls openaiToGeminiBase)                  *)
(*                                                                         *)
(* Each streaming translator is a reducer over one mutable state object;   *)
(* the model keeps that object as a record, the events it has emitted as   *)
(* a sequence, and what it has received as history variables.              *)
(* Strings that the code only tests for truthiness or copies are kept as   *)
(* strings, "" standing for an absent or empty (falsy) field; a missing    *)
(* number is -1.  String concatenation is sequence concatenation of the    *)
(* fragments.                                                              *)
(***************************************************************************)
EXTENDS Integers, Sequences, FiniteSets, TLC

VARIABLES
    ocState,    \* openaiToClaudeResponse: the state object of the exchange
    ocOut,      \* openaiToClaudeResponse: every event emitted so far, in order
    ocHist,     \* openaiToClaudeResponse: what the chunks carried (history)
    ocN,        \* openaiToClaudeResponse: number of chunks consumed
    coState,    \* claudeToOpenAIResponse: the state object of the exchange
    coOut,      \* claudeToOpenAIResponse: the chunk objects returned so far, in
                \* order, as they read after the last call
    coShared,   \* claudeToOpenAIResponse: per provider block index, the position
                \* in coOut of the chunk whose tool call is the object that
                \* state.toolCalls holds for the block
    coHist,     \* claudeToOpenAIResponse: what the events carried (history)
    coN,        \* claudeToOpenAIResponse: number of events consumed
    scn,        \* the tool-call stream being replayed, and how far it has got
    rqBody,     \* openaiToClaude: body.messages of the request
    rqResult,   \* openaiToClaude: result.messages, once translated
    rqDone,     \* openaiToClaude: whether the call has returned
    rqOpts,     \* openaiToClaude: body.tools, body.tool_choice and body.max_tokens
    rqRest,     \* openaiToClaude: result.max_tokens, .system, .tools, .tool_choice
    rqCalls,    \* openaiToClaude: the calls made on the body and what they wrote
    xch,        \* two exchanges served side by side, each with its own state object
    xchNow,     \* what Date.now() returns, to every exchange of the process
    gmState,    \* geminiToOpenAIResponse: the state object of the exchange
    gmOut,      \* geminiToOpenAIResponse: every chunk emitted so far, in order
    gmHist,     \* geminiToOpenAIResponse: what the chunks carried (history)
    gmN,        \* geminiToOpenAIResponse: number of chunks consumed
    gqBody,     \* openaiToGeminiCLI: the request body
    gqResult,   \* openaiToGeminiCLI: the request it returned
    gqDone      \* openaiToGeminiCLI: whether the call has returned

ocVars == <<ocState, ocOut, ocHist, ocN>>
coVars == <<coState, coOut, coShared, coHist, coN>>

rqVars == <<rqBody, rqResult, rqDone, rqOpts, rqRest, rqCalls>>
xchVars == <<xch, xchNow>>
gmVars == <<gmState, gmOut, gmHist, gmN>>
gqVars == <<gqBody, gqResult, gqDone>>

vars == <<ocState, ocOut, ocHist, ocN, coState, coOut, coShared, coHist, coN, scn, rqBody, rqResult, rqDone,
         rqOpts, rqRest, rqCalls, xch, xchNow, gmState, gmOut, gmHist, gmN, gqBody, gqResult, gqDone>>

(***************************************************************************)
(* Bounds                                                                  *)
(***************************************************************************)
MaxChunks == 3
MaxEvents == 4
MaxMessages == 4
MaxToolEvents == 5
MaxExchangeEvents == 2
MaxGeminiChunks == 4
MaxGeminiMessages == 3

\* argument fragments; "" is a delta without arguments
ArgFragments == {"", "x", "y"}
\* tool-call ids; "" is a delta without an id
TcIds == {"", "t1"}
FinishReasons == {"", "stop", "length"}

(***************************************************************************)
(* Helpers                                                                 *)
(***************************************************************************)
\* a string as the sequence of its fragments, so that + is \o
Str(s) == IF s = "" THEN <<>> ELSE <<s>>

(***************************************************************************)
(* Finish-reason tables                                                    *)
(***************************************************************************)
\* convertStopReason without its max_tokens case
convertStopReason_noLength(reason) ==
    CASE reason = "end_turn"      -> "stop"
      [] reason = "tool_use"      -> "tool_calls"
      [] reason = "stop_sequence" -> "stop"
      [] OTHER                    -> "stop"

convertStopReason(reason) ==
    CASE reason = "end_turn"      -> "stop"
      [] reason = "max_tokens"    -> "length"
      [] reason = "tool_use"      -> "tool_calls"
      [] reason = "stop_sequence" -> "stop"
      [] OTHER                    -> "stop"

convertFinishReason(reason) ==
    CASE reason = "stop"       -> "end_turn"
      [] reason = "length"     -> "max_tokens"
      [] reason = "tool_calls" -> "tool_use"
      [] OTHER                 -> "end_turn"

(***************************************************************************)
(* openaiToClaudeResponse                                                  *)
(***************************************************************************)
\* Claude events; index -1 where the event has none
ClaudeEv(type, index, kind, data) ==
    [type |-> type, index |-> index, kind |-> kind, data |-> data]

\* tc.index ?? 0
TcIdx(tc) == IF tc.index = -1 THEN 0 ELSE tc.index

\* Map.get / Map.has / Map.set on a Map kept as its entries in insertion order
MapHas(m, k) == \E i \in 1..Len(m) : m[i].key = k
MapGet(m, k) == m[CHOOSE i \in 1..Len(m) : m[i].key = k]
MapSet(m, k, v) ==
    IF MapHas(m, k)
    THEN [i \in 1..Len(m) |-> IF m[i].key = k THEN v ELSE m[i]]
    ELSE Append(m, v)

ocStateInit ==
    [messageStartSent     |-> FALSE,
     nextBlockIndex       |-> -1,
     thinkingBlockStarted |-> FALSE,
     thinkingBlockIndex   |-> -1,
     textBlockStarted     |-> FALSE,
     textBlockClosed      |-> FALSE,
     textBlockIndex       |-> -1,
     toolCalls            |-> <<>>]

\* The helpers and sections below thread c = [state, results, owner]:
\* the state object, the results array of this call, and (history) the
\* tool-call index each tool_use block was opened for.
\* stopThinkingBlock that clears the flag without pushing content_block_stop
stopThinkingBlock_silent(c) ==
    IF ~c.state.thinkingBlockStarted THEN c
    ELSE [c EXCEPT !.state.thinkingBlockStarted = FALSE]

stopThinkingBlock(c) ==
    IF ~c.state.thinkingBlockStarted THEN c
    ELSE [c EXCEPT
            !.results = Append(@, ClaudeEv("content_block_stop", c.state.thinkingBlockIndex, "", "")),
            !.state.thinkingBlockStarted = FALSE]

stopTextBlock(c) ==
    IF ~c.state.textBlockStarted \/ c.state.textBlockClosed THEN c
    ELSE [c EXCEPT
            !.state.textBlockClosed = TRUE,
            !.results = Append(@, ClaudeEv("content_block_stop", c.state.textBlockIndex, "", "")),
            !.state.textBlockStarted = FALSE]

\* ocMessageStart that does not remember having sent message_start
ocMessageStart_everyChunk(c) ==
    [c EXCEPT
        !.state.nextBlockIndex = IF c.state.messageStartSent THEN @ ELSE 0,
        !.results = Append(@, ClaudeEv("message_start", -1, "", ""))]

\* first chunk: message_start, nextBlockIndex reset
ocMessageStart(c) ==
    IF c.state.messageStartSent THEN c
    ELSE [c EXCEPT
            !.state.messageStartSent = TRUE,
            !.state.nextBlockIndex = 0,
            !.results = Append(@, ClaudeEv("message_start", -1, "", ""))]

\* start the thinking block if needed
ocStartThinking(c) ==
    IF c.state.thinkingBlockStarted THEN c
    ELSE [c EXCEPT
            !.state.thinkingBlockIndex = c.state.nextBlockIndex,
            !.state.nextBlockIndex = @ + 1,
            !.state.thinkingBlockStarted = TRUE,
            !.results = Append(@, ClaudeEv("content_block_start", c.state.nextBlockIndex, "thinking", ""))]

\* delta.reasoning_content || delta.reasoning
ocReasoning(c, reasoningContent) ==
    IF reasoningContent = "" THEN c
    ELSE LET c1 == stopTextBlock(c)
             c2 == ocStartThinking(c1)
         IN [c2 EXCEPT !.results = Append(@,
                ClaudeEv("content_block_delta", c2.state.thinkingBlockIndex, "thinking_delta", reasoningContent))]

\* ocStartText that reads nextBlockIndex without incrementing it
ocStartText_noIncrement(c) ==
    IF c.state.textBlockStarted THEN c
    ELSE [c EXCEPT
            !.state.textBlockIndex = c.state.nextBlockIndex,
            !.state.textBlockStarted = TRUE,
            !.state.textBlockClosed = FALSE,
            !.results = Append(@, ClaudeEv("content_block_start", c.state.nextBlockIndex, "text", ""))]

\* start the text block if needed
ocStartText(c) ==
    IF c.state.textBlockStarted THEN c
    ELSE [c EXCEPT
            !.state.textBlockIndex = c.state.nextBlockIndex,
            !.state.nextBlockIndex = @ + 1,
            !.state.textBlockStarted = TRUE,
            !.state.textBlockClosed = FALSE,
            !.results = Append(@, ClaudeEv("content_block_start", c.state.nextBlockIndex, "text", ""))]

\* delta.content
ocContent(c, content) ==
    IF content = "" THEN c
    ELSE LET c1 == stopThinkingBlock(c)
             c2 == ocStartText(c1)
         IN [c2 EXCEPT !.results = Append(@,
                ClaudeEv("content_block_delta", c2.state.textBlockIndex, "text_delta", content))]

\* if (tc.id): close thinking and text, open a tool_use block
ocToolOpen(c, tc) ==
    IF tc.id = "" THEN c
    ELSE LET c1 == stopTextBlock(stopThinkingBlock(c))
             toolBlockIndex == c1.state.nextBlockIndex
         IN [c1 EXCEPT
               !.state.nextBlockIndex = @ + 1,
               !.state.toolCalls = MapSet(@, TcIdx(tc),
                    [key |-> TcIdx(tc), id |-> tc.id, name |-> tc.name, blockIndex |-> toolBlockIndex]),
               !.results = Append(@, ClaudeEv("content_block_start", toolBlockIndex, "tool_use", tc.id)),
               !.owner = Append(@, [block |-> toolBlockIndex, idx |-> TcIdx(tc)])]

\* ocToolArgs that sends the fragment to the block opened last instead of
\* the block recorded for the tool-call index
ocToolArgs_lastBlock(c, tc) ==
    IF tc.arguments = "" THEN c
    ELSE IF ~MapHas(c.state.toolCalls, TcIdx(tc)) THEN c
    ELSE [c EXCEPT !.results = Append(@,
            ClaudeEv("content_block_delta", c.state.nextBlockIndex - 1,
                     "input_json_delta", tc.arguments))]

\* if (tc.function?.arguments): raw delta against the recorded block index
ocToolArgs(c, tc) ==
    IF tc.arguments = "" THEN c
    ELSE IF ~MapHas(c.state.toolCalls, TcIdx(tc)) THEN c
    ELSE [c EXCEPT !.results = Append(@,
            ClaudeEv("content_block_delta", MapGet(c.state.toolCalls, TcIdx(tc)).blockIndex,
                     "input_json_delta", tc.arguments))]

\* for (const tc of delta.tool_calls)
RECURSIVE ocToolCalls(_, _)
ocToolCalls(c, tcs) ==
    IF tcs = <<>> THEN c
    ELSE ocToolCalls(ocToolArgs(ocToolOpen(c, Head(tcs)), Head(tcs)), Tail(tcs))

\* for (const [, toolInfo] of state.toolCalls): content_block_stop
ocCloseTools(c) ==
    [c EXCEPT !.results = @ \o
        [i \in 1..Len(c.state.toolCalls) |->
            ClaudeEv("content_block_stop", c.state.toolCalls[i].blockIndex, "", "")]]

\* if (choice.finish_reason)
ocFinish(c, finish_reason) ==
    IF finish_reason = "" THEN c
    ELSE LET c1 == ocCloseTools(stopTextBlock(stopThinkingBlock(c)))
         IN [c1 EXCEPT !.results = @ \o
               <<ClaudeEv("message_delta", -1, convertFinishReason(finish_reason), ""),
                 ClaudeEv("message_stop", -1, "", "")>>]

\* the whole call, for a chunk that has choices[0]
openaiToClaudeResponse(chunk, st) ==
    LET c0 == [state |-> st, results |-> <<>>, owner |-> <<>>]
        c1 == ocMessageStart(c0)
        c2 == ocReasoning(c1, chunk.reasoning)
        c3 == ocContent(c2, chunk.content)
        c4 == ocToolCalls(c3, chunk.tool_calls)
    IN ocFinish(c4, chunk.finish_reason)

(***************************************************************************)
(* Chunks fed to openaiToClaudeResponse                                    *)
(***************************************************************************)
TcDelta(index, id, arguments) ==
    [index |-> index, id |-> id, name |-> IF id = "" THEN "" ELSE "lookup", arguments |-> arguments]

\* every delta on index 0 or 1, and two deltas that carry no index
ToolCallDeltas ==
    {TcDelta(i, id, a) : i \in {0, 1}, id \in TcIds, a \in ArgFragments}
    \cup {TcDelta(-1, "t1", "x"), TcDelta(-1, "", "y")}

OChunk(r, t, tcs, f) ==
    [reasoning |-> r, content |-> t, tool_calls |-> tcs, finish_reason |-> f]

\* text and finish chunks, one-delta tool-call chunks, and two chunks that
\* carry every section at once
OpenAIChunks ==
    {OChunk(r, t, <<>>, f) : r \in {"", "r"}, t \in {"", "c"}, f \in FinishReasons}
    \cup {OChunk("", "", <<tc>>, "") : tc \in ToolCallDeltas}
    \cup {OChunk("r", "c", <<TcDelta(0, "t1", "x"), TcDelta(1, "t1", "y")>>, "stop"),
          OChunk("", "c", <<TcDelta(0, "t1", ""), TcDelta(0, "", "x")>>, "length")}

\* history of one tool-call delta: the indices seen, the indices opened by a
\* delta with an id, the fragments received per index, the fragments received
\* per index once it has been opened, and whether a delta without an id came
\* for an index that no id had opened; besides, of the chunks: how many
\* carried a finish_reason, whether any had a choice, and the last
\* finish_reason
ocHistTc(h, tc) ==
    LET i == TcIdx(tc)
        opened == tc.id # "" \/ i \in h.opened
    IN [seen     |-> h.seen \cup {i},
        opened   |-> IF opened THEN h.opened \cup {i} ELSE h.opened,
        recv     |-> [h.recv EXCEPT ![i] = @ \o Str(tc.arguments)],
        recvOpen |-> [h.recvOpen EXCEPT ![i] = IF opened THEN @ \o Str(tc.arguments) ELSE @],
        orphan   |-> h.orphan \/ (tc.id = "" /\ i \notin h.opened),
        owner    |-> h.owner,
        finishes |-> h.finishes,
        hadChoice |-> h.hadChoice,
        lastFinish |-> h.lastFinish]

RECURSIVE ocHistTcs(_, _)
ocHistTcs(h, tcs) ==
    IF tcs = <<>> THEN h ELSE ocHistTcs(ocHistTc(h, Head(tcs)), Tail(tcs))

ocHistInit ==
    [seen     |-> {},
     opened   |-> {},
     recv     |-> [i \in {0, 1} |-> <<>>],
     recvOpen |-> [i \in {0, 1} |-> <<>>],
     orphan   |-> FALSE,
     owner    |-> <<>>,
     finishes |-> 0,
     hadChoice |-> FALSE,
     lastFinish |-> ""]

InitOC ==
    /\ ocState = ocStateInit
    /\ ocOut = <<>>
    /\ ocHist = ocHistInit
    /\ ocN = 0

\* one call of openaiToClaudeResponse(chunk, state) with a chunk that has a choice
O2C_Chunk ==
    /\ ocN < MaxChunks
    /\ \E chunk \in OpenAIChunks :
        LET c == openaiToClaudeResponse(chunk, ocState)
            h == ocHistTcs(ocHist, chunk.tool_calls)
        IN /\ ocState' = c.state
           /\ ocOut' = ocOut \o c.results
           /\ ocHist' = [h EXCEPT !.owner = @ \o c.owner,
                                  !.finishes = IF chunk.finish_reason = "" THEN @ ELSE @ + 1,
                                  !.hadChoice = TRUE,
                                  !.lastFinish = IF chunk.finish_reason = "" THEN @
                                                 ELSE chunk.finish_reason]
    /\ ocN' = ocN + 1
    /\ UNCHANGED <<coVars, scn, rqVars, xchVars, gmVars, gqVars>>

\* if (!chunk || !chunk.choices?.[0]) return null
O2C_NoChoice ==
    /\ ocN < MaxChunks
    /\ ocN' = ocN + 1
    /\ UNCHANGED <<ocState, ocOut, ocHist>>
    /\ UNCHANGED <<coVars, scn, rqVars, xchVars, gmVars, gqVars>>

NextO2C == O2C_Chunk \/ O2C_NoChoice

(***************************************************************************)
(* claudeToOpenAIResponse                                                  *)
(***************************************************************************)
\* OpenAI chunks (createChunk and the two literal terminal chunks): the
\* delta is one of role / content / tool_calls[0] / empty; finish_reason ""
\* is null; usage is the usage object the chunk carries, if any
OpenAIOut(id, kind, content, tc, finish_reason, usage) ==
    [id |-> id, kind |-> kind, content |-> content, tool_call |-> tc,
     finish_reason |-> finish_reason, usage |-> usage]

NoTc == [index |-> -1, id |-> "", name |-> "", arguments |-> ""]

\* state.usage: unset, or an object with input_tokens and output_tokens
\* (-1: the field is missing)
UsageIn(set, input_tokens, output_tokens) ==
    [set |-> set, input_tokens |-> input_tokens, output_tokens |-> output_tokens]
NoUsage == UsageIn(FALSE, -1, -1)
\* the usage object of a chunk, or none
NoUsageOut == [set |-> FALSE, prompt_tokens |-> -1, completion_tokens |-> -1, total_tokens |-> -1]

\* ...(state.usage && { usage: {...} }); x || 0 is 0 for a missing x
coUsage(usage) ==
    IF ~usage.set THEN NoUsageOut
    ELSE LET input == IF usage.input_tokens = -1 THEN 0 ELSE usage.input_tokens
             output == IF usage.output_tokens = -1 THEN 0 ELSE usage.output_tokens
         IN [set |-> TRUE, prompt_tokens |-> input, completion_tokens |-> output,
             total_tokens |-> input + output]

createChunk(st, kind, content, tc) == OpenAIOut(st.messageId, kind, content, tc, "", NoUsageOut)

\* the string a buffer of fragments holds
RECURSIVE coJoin(_)
coJoin(fragments) == IF fragments = <<>> THEN "" ELSE Head(fragments) \o coJoin(Tail(fragments))

\* state.toolCalls.set(chunk.index, toolCall) followed by
\* createChunk(state, { tool_calls: [toolCall] }): the chunk pushed by a
\* tool_use content_block_start, the n-th returned, holds the very object the
\* map now keeps for the block
coSharedNext(shared, chunk, n) ==
    IF chunk.type = "content_block_start" /\ chunk.kind = "tool_use"
    THEN MapSet(shared, chunk.index, [key |-> chunk.index, pos |-> n])
    ELSE shared

\* the returned chunks as they read once a call has run: toolCall.function
\* .arguments += delta.partial_json writes to the object a returned chunk
\* holds, so that chunk shows the buffer of the tool call
coRead(out, shared, toolCalls) ==
    [i \in 1..Len(out) |->
        IF \E n \in 1..Len(shared) : shared[n].pos = i
        THEN LET key == shared[CHOOSE n \in 1..Len(shared) : shared[n].pos = i].key
             IN [out[i] EXCEPT !.tool_call.arguments = coJoin(MapGet(toolCalls, key).arguments)]
        ELSE out[i]]

coStateInit ==
    [messageId            |-> "",
     toolCallIndex        |-> -1,
     textBlockStarted     |-> FALSE,
     thinkingBlockStarted |-> FALSE,
     inThinkingBlock      |-> FALSE,
     currentBlockIndex    |-> -1,
     toolCalls            |-> <<>>,
     finishReason         |-> "",
     finishReasonSent     |-> FALSE,
     usage                |-> NoUsage]

\* case "message_start"
coMessageStart(chunk, c) ==
    LET st == [c.state EXCEPT
                 !.messageId = IF chunk.id # "" THEN chunk.id ELSE "msg_now",
                 !.toolCallIndex = 0]
    IN [state |-> st, results |-> Append(c.results, createChunk(st, "role", "", NoTc))]

\* coToolUseStart that announces the provider's block index
coToolUseStart_providerIndex(chunk, c) ==
    LET toolCallIndex == chunk.index
        toolCall == [key |-> chunk.index, index |-> toolCallIndex, id |-> chunk.id,
                     name |-> chunk.name, arguments |-> <<>>]
    IN [state |-> [c.state EXCEPT
                     !.toolCallIndex = IF @ = -1 THEN -1 ELSE @ + 1,
                     !.toolCalls = MapSet(@, chunk.index, toolCall)],
        results |-> Append(c.results, createChunk(c.state, "tool_calls", "",
                     [index |-> toolCallIndex, id |-> chunk.id, name |-> chunk.name, arguments |-> ""]))]

\* content_block_start, block.type === "tool_use"; x++ of a counter that was
\* never set leaves it not-a-number (-1)
coToolUseStart(chunk, c) ==
    LET toolCallIndex == c.state.toolCallIndex
        toolCall == [key |-> chunk.index, index |-> toolCallIndex, id |-> chunk.id,
                     name |-> chunk.name, arguments |-> <<>>]
    IN [state |-> [c.state EXCEPT
                     !.toolCallIndex = IF @ = -1 THEN -1 ELSE @ + 1,
                     !.toolCalls = MapSet(@, chunk.index, toolCall)],
        results |-> Append(c.results, createChunk(c.state, "tool_calls", "",
                     [index |-> toolCallIndex, id |-> chunk.id, name |-> chunk.name, arguments |-> ""]))]

\* case "content_block_start"
coContentBlockStart(chunk, c) ==
    CASE chunk.kind = "text" ->
            [c EXCEPT !.state.textBlockStarted = TRUE]
      [] chunk.kind = "thinking" ->
            [state |-> [c.state EXCEPT !.inThinkingBlock = TRUE, !.currentBlockIndex = chunk.index],
             results |-> Append(c.results, createChunk(c.state, "content", "<think>", NoTc))]
      [] chunk.kind = "tool_use" -> coToolUseStart(chunk, c)
      [] OTHER -> c

\* coInputJsonDelta that emits the fragment without appending it to the buffer
coInputJsonDelta_noAppend(chunk, c) ==
    IF ~MapHas(c.state.toolCalls, chunk.index) THEN c
    ELSE LET toolCall == MapGet(c.state.toolCalls, chunk.index)
         IN [state |-> c.state,
             results |-> Append(c.results, createChunk(c.state, "tool_calls", "",
                            [index |-> toolCall.index, id |-> toolCall.id, name |-> "",
                             arguments |-> chunk.data]))]

\* content_block_delta, delta.type === "input_json_delta" && delta.partial_json
coInputJsonDelta(chunk, c) ==
    IF ~MapHas(c.state.toolCalls, chunk.index) THEN c
    ELSE LET toolCall == MapGet(c.state.toolCalls, chunk.index)
         IN [state |-> [c.state EXCEPT !.toolCalls = MapSet(@, chunk.index,
                            [toolCall EXCEPT !.arguments = @ \o Str(chunk.data)])],
             results |-> Append(c.results, createChunk(c.state, "tool_calls", "",
                            [index |-> toolCall.index, id |-> toolCall.id, name |-> "",
                             arguments |-> chunk.data]))]

\* case "content_block_delta"
coContentBlockDelta(chunk, c) ==
    CASE chunk.kind = "text_delta" /\ chunk.data # "" ->
            [c EXCEPT !.results = Append(@, createChunk(c.state, "content", chunk.data, NoTc))]
      [] chunk.kind = "thinking_delta" /\ chunk.data # "" ->
            [c EXCEPT !.results = Append(@, createChunk(c.state, "content", chunk.data, NoTc))]
      [] chunk.kind = "input_json_delta" /\ chunk.data # "" -> coInputJsonDelta(chunk, c)
      [] OTHER -> c

\* coContentBlockStop that clears the flags and emits no closing marker
coContentBlockStop_noMarker(chunk, c) ==
    LET c1 == IF c.state.inThinkingBlock /\ chunk.index = c.state.currentBlockIndex
              THEN [c EXCEPT !.state.inThinkingBlock = FALSE]
              ELSE c
    IN [c1 EXCEPT !.state.textBlockStarted = FALSE, !.state.thinkingBlockStarted = FALSE]

\* case "content_block_stop"
coContentBlockStop(chunk, c) ==
    LET c1 == IF c.state.inThinkingBlock /\ chunk.index = c.state.currentBlockIndex
              THEN [state |-> [c.state EXCEPT !.inThinkingBlock = FALSE],
                    results |-> Append(c.results, createChunk(c.state, "content", "</think>", NoTc))]
              ELSE c
    IN [c1 EXCEPT !.state.textBlockStarted = FALSE, !.state.thinkingBlockStarted = FALSE]

\* case "message_delta"
coMessageDelta(chunk, c) ==
    IF chunk.data = "" THEN c
    ELSE LET finishReason == convertStopReason(chunk.data)
         IN [state |-> [c.state EXCEPT !.finishReason = finishReason, !.finishReasonSent = TRUE],
             results |-> Append(c.results,
                            OpenAIOut(c.state.messageId, "final", "", NoTc, finishReason, NoUsageOut))]

\* coFinishReason that does not look at the recorded tool calls
coFinishReason_neverToolCalls(st) ==
    IF st.finishReason # "" THEN st.finishReason ELSE "stop"

\* state.finishReason || (state.toolCalls?.size > 0 ? "tool_calls" : "stop")
coFinishReason(st) ==
    IF st.finishReason # "" THEN st.finishReason
    ELSE IF Len(st.toolCalls) > 0 THEN "tool_calls" ELSE "stop"

\* coMessageStop without the finishReasonSent guard
coMessageStop_unguarded(chunk, c) ==
    [state |-> [c.state EXCEPT !.finishReasonSent = TRUE],
     results |-> Append(c.results,
                    OpenAIOut(c.state.messageId, "final", "", NoTc, coFinishReason(c.state),
                              coUsage(c.state.usage)))]

\* case "message_stop"
coMessageStop(chunk, c) ==
    IF c.state.finishReasonSent THEN c
    ELSE [state |-> [c.state EXCEPT !.finishReasonSent = TRUE],
          results |-> Append(c.results,
                         OpenAIOut(c.state.messageId, "final", "", NoTc, coFinishReason(c.state),
                                   coUsage(c.state.usage)))]

\* the whole call, for a chunk that is not null: switch (chunk.type)
claudeToOpenAIResponse(chunk, st) ==
    LET c == [state |-> st, results |-> <<>>]
    IN CASE chunk.type = "message_start"       -> coMessageStart(chunk, c)
         [] chunk.type = "content_block_start" -> coContentBlockStart(chunk, c)
         [] chunk.type = "content_block_delta" -> coContentBlockDelta(chunk, c)
         [] chunk.type = "content_block_stop"  -> coContentBlockStop(chunk, c)
         [] chunk.type = "message_delta"       -> coMessageDelta(chunk, c)
         [] chunk.type = "message_stop"        -> coMessageStop(chunk, c)
         [] OTHER -> c

(***************************************************************************)
(* Events fed to claudeToOpenAIResponse                                    *)
(***************************************************************************)
\* type; content-block index (-1: none); block type, delta type or "";
\* message or tool id; tool name; text, partial_json or stop_reason
CEvent(type, index, kind, id, name, data) ==
    [type |-> type, index |-> index, kind |-> kind, id |-> id, name |-> name, data |-> data]

StopReasons == {"", "end_turn", "max_tokens", "tool_use", "stop_sequence", "refusal"}

ClaudeEvents ==
    {CEvent("message_start", -1, "", id, "", "") : id \in {"m1", ""}}
    \cup {CEvent("content_block_start", i, k, "", "", "") : i \in {0, 1}, k \in {"text", "thinking"}}
    \cup {CEvent("content_block_start", i, "tool_use", id, "lookup", "") : i \in {0, 1}, id \in {"t1", "t2"}}
    \cup {CEvent("content_block_delta", 0, k, "", "", d) : k \in {"text_delta", "thinking_delta"}, d \in {"", "c"}}
    \cup {CEvent("content_block_delta", i, "input_json_delta", "", "", d) : i \in {0, 1}, d \in ArgFragments}
    \cup {CEvent("content_block_stop", i, "", "", "", "") : i \in {0, 1}}
    \cup {CEvent("message_delta", -1, "", "", "", r) : r \in StopReasons}
    \cup {CEvent("message_stop", -1, "", "", "", ""), CEvent("ping", -1, "", "", "", "")}

\* state.usage values the caller's usage extraction stores
Usages == {UsageIn(TRUE, 3, 5), UsageIn(TRUE, 3, -1)}

\* the last stop_reason a message_delta carried, the number of chunks emitted
\* with a finish_reason, state.toolCalls as it was before the last event,
\* the type of the first event, the number of message_start events, the
\* think markers emitted (each with the block index of the event that
\* emitted it), per provider block index the fragments emitted since the
\* last tool_use content_block_start on it, and the last call, when its
\* event was an input_json_delta or a message_stop: the event, the state
\* before it and its results; every chunk as it read when its call
\* returned it; and the number of content_block_stop events that came for
\* the thinking block of the last marker while that marker was a "<think>"
\* and did not return exactly one "</think>"
NoEvent == CEvent("", -1, "", "", "", "")
coStepKept(chunk) ==
    \/ chunk.type = "message_stop"
    \/ chunk.type = "content_block_delta" /\ chunk.kind = "input_json_delta"
\* the event is the content_block_stop of the thinking block that the last
\* marker emitted, a "<think>", opened
coStopOfOpenThinking(h, chunk) ==
    /\ chunk.type = "content_block_stop"
    /\ Len(h.marks) > 0
    /\ h.marks[Len(h.marks)].mark = "<think>"
    /\ h.marks[Len(h.marks)].index = chunk.index

coHistInit ==
    [lastStopReason |-> "", terminals |-> 0, prevToolCalls |-> <<>>, first |-> "",
     starts |-> 0, marks |-> <<>>, emitted |-> [i \in {0, 1} |-> <<>>],
     last |-> NoEvent, prev |-> coStateInit, lastResults |-> <<>>, sent |-> <<>>,
     stopsUnclosed |-> 0]

\* the history after the call for chunk returned c from state st
coHistNext(h, chunk, st, c, n) ==
    [lastStopReason |->
        IF chunk.type = "message_delta" /\ chunk.data # ""
        THEN chunk.data ELSE h.lastStopReason,
     terminals |-> h.terminals +
        Cardinality({i \in 1..Len(c.results) : c.results[i].finish_reason # ""}),
     prevToolCalls |-> st.toolCalls,
     first |-> IF n = 0 THEN chunk.type ELSE h.first,
     starts |-> IF chunk.type = "message_start" THEN h.starts + 1 ELSE h.starts,
     marks |-> h.marks \o
        [i \in 1..Len(SelectSeq(c.results, LAMBDA r : r.content \in {"<think>", "</think>"})) |->
            [mark |-> SelectSeq(c.results, LAMBDA r : r.content \in {"<think>", "</think>"})[i].content,
             index |-> chunk.index]],
     emitted |->
        IF chunk.type = "content_block_start" /\ chunk.kind = "tool_use"
        THEN [h.emitted EXCEPT ![chunk.index] = <<>>]
        ELSE IF chunk.type = "content_block_delta" /\ chunk.kind = "input_json_delta"
        THEN [h.emitted EXCEPT ![chunk.index] =
                @ \o [i \in 1..Len(c.results) |-> c.results[i].tool_call.arguments]]
        ELSE h.emitted,
     last |-> IF coStepKept(chunk) THEN chunk ELSE NoEvent,
     prev |-> IF coStepKept(chunk) THEN st ELSE coStateInit,
     lastResults |-> IF coStepKept(chunk) THEN c.results ELSE <<>>,
     sent |-> h.sent \o c.results,
     stopsUnclosed |->
        IF coStopOfOpenThinking(h, chunk)
           /\ ~(Len(c.results) = 1 /\ c.results[1].content = "</think>")
        THEN h.stopsUnclosed + 1 ELSE h.stopsUnclosed]

InitCO ==
    /\ coState = coStateInit
    /\ coOut = <<>>
    /\ coShared = <<>>
    /\ coHist = coHistInit
    /\ coN = 0

\* one call of claudeToOpenAIResponse(chunk, state) with a chunk that is not null
C2O_Event ==
    /\ coN < MaxEvents
    /\ \E chunk \in ClaudeEvents :
        LET c == claudeToOpenAIResponse(chunk, coState)
            shared == coSharedNext(coShared, chunk, Len(coOut) + Len(c.results))
        IN /\ coState' = c.state
           /\ coShared' = shared
           /\ coOut' = coRead(coOut \o c.results, shared, c.state.toolCalls)
           /\ coHist' = coHistNext(coHist, chunk, coState, c, coN)
    /\ coN' = coN + 1
    /\ UNCHANGED <<ocVars, scn, rqVars, xchVars, gmVars, gqVars>>

\* if (!chunk) return null
C2O_Null ==
    /\ coN < MaxEvents
    /\ coN' = coN + 1
    /\ UNCHANGED <<coState, coOut, coShared, coHist>>
    /\ UNCHANGED <<ocVars, scn, rqVars, xchVars, gmVars, gqVars>>

NextC2O == C2O_Event \/ C2O_Null

(***************************************************************************)
(* claudeToOpenAIResponse on longer exchanges of fewer kinds of event:     *)
(* tool calls, their argument fragments, the terminal events, and the      *)
(* usage the caller stores in the state                                    *)
(***************************************************************************)
ToolEvents ==
    { CEvent("message_start", -1, "", "m1", "", ""),
      CEvent("content_block_start", 0, "text", "", "", ""),
      CEvent("content_block_start", 0, "tool_use", "t1", "lookup", ""),
      CEvent("content_block_start", 1, "tool_use", "t2", "lookup", ""),
      CEvent("content_block_delta", 0, "input_json_delta", "", "", "x"),
      CEvent("content_block_delta", 0, "input_json_delta", "", "", ""),
      CEvent("content_block_delta", 1, "input_json_delta", "", "", "y"),
      CEvent("message_delta", -1, "", "", "", "tool_use"),
      CEvent("message_stop", -1, "", "", "", "") }

\* one call of claudeToOpenAIResponse(chunk, state)
C2O_ToolEvent ==
    /\ coN < MaxToolEvents
    /\ \E chunk \in ToolEvents :
        LET c == claudeToOpenAIResponse(chunk, coState)
            shared == coSharedNext(coShared, chunk, Len(coOut) + Len(c.results))
        IN /\ coState' = c.state
           /\ coShared' = shared
           /\ coOut' = coRead(coOut \o c.results, shared, c.state.toolCalls)
           /\ coHist' = coHistNext(coHist, chunk, coState, c, coN)
    /\ coN' = coN + 1
    /\ UNCHANGED <<ocVars, scn, rqVars, xchVars, gmVars, gqVars>>

\* the caller's usage extraction stores the provider's usage in state.usage
C2O_ExtractUsage ==
    /\ coN >= 1
    /\ ~coState.usage.set
    /\ \E u \in Usages : coState' = [coState EXCEPT !.usage = u]
    /\ UNCHANGED <<coOut, coShared, coHist, coN>>
    /\ UNCHANGED <<ocVars, scn, rqVars, xchVars, gmVars, gqVars>>

NextC2OTools == C2O_ToolEvent \/ C2O_ExtractUsage

(***************************************************************************)
(* geminiToOpenAIResponse                                                  *)
(***************************************************************************)
\* A part of candidate.content.parts: thoughtSignature present, thought ===
\* true, text ("" is undefined or empty), functionCall (fcName "" is none)
\* with its args object (NoArgs: none), inlineData.data and its mimeType.
\* An object is kept as [parsed |-> TRUE, value |-> its JSON text].
NoArgs == [parsed |-> FALSE, value |-> ""]
GmPart(thoughtSignature, thought, text, fcName, fcArgs, data, mimeType) ==
    [thoughtSignature |-> thoughtSignature, thought |-> thought, text |-> text,
     fcName |-> fcName, fcArgs |-> fcArgs, data |-> data, mimeType |-> mimeType]

\* usageMetadata: the four counts (-1: missing), or none
GmUsageIn(set, promptTokenCount, thoughtsTokenCount, candidatesTokenCount, totalTokenCount) ==
    [set |-> set, promptTokenCount |-> promptTokenCount,
     thoughtsTokenCount |-> thoughtsTokenCount,
     candidatesTokenCount |-> candidatesTokenCount, totalTokenCount |-> totalTokenCount]
NoGmUsageIn == GmUsageIn(FALSE, -1, -1, -1, -1)

\* A chunk: whether it has response.candidates[0] (under chunk.response or
\* at top level), responseId, the candidate's parts and finishReason, and
\* usageMetadata
GmChunk(hasCandidate, responseId, parts, finishReason, usageMetadata) ==
    [hasCandidate |-> hasCandidate, responseId |-> responseId, parts |-> parts,
     finishReason |-> finishReason, usageMetadata |-> usageMetadata]

\* state.usage as geminiToOpenAIResponse writes it (reasoning_tokens -1: no
\* completion_tokens_details)
NoGmUsage ==
    [set |-> FALSE, prompt_tokens |-> -1, completion_tokens |-> -1, total_tokens |-> -1,
     reasoning_tokens |-> -1]

gmStateInit ==
    [messageId |-> "", functionIndex |-> -1, toolCalls |-> <<>>, finishReason |-> "",
     usage |-> NoGmUsage]

\* if (!state.messageId) { ... }
gmInitialize(chunk, c) ==
    IF c.state.messageId # "" THEN c
    ELSE LET st == [c.state EXCEPT
                      !.messageId = IF chunk.responseId # "" THEN chunk.responseId ELSE "msg_now",
                      !.functionIndex = 0]
         IN [state |-> st,
             results |-> Append(c.results, OpenAIOut(st.messageId, "role", "", NoTc, "", NoUsageOut))]

\* JSON.stringify(part.functionCall.args || {})
gmStringifyArgs(fcArgs) == IF fcArgs.parsed THEN fcArgs.value ELSE "{}"

\* gmFunctionCall taking state.functionIndex without advancing it
gmFunctionCall_noIncrement(part, c) ==
    LET toolCallIndex == c.state.functionIndex
        toolCall == [key |-> toolCallIndex, index |-> toolCallIndex, id |-> part.fcName,
                     name |-> part.fcName, arguments |-> gmStringifyArgs(part.fcArgs)]
    IN [state |-> [c.state EXCEPT !.toolCalls = MapSet(@, toolCallIndex, toolCall)],
        results |-> Append(c.results,
                       OpenAIOut(c.state.messageId, "tool_calls", "",
                                 [index |-> toolCallIndex, id |-> part.fcName, name |-> part.fcName,
                                  arguments |-> gmStringifyArgs(part.fcArgs)], "", NoUsageOut))]

\* a functionCall part: the tool call gets the next functionIndex; its id is
\* made of the function name, the time and that index (kept as the name)
gmFunctionCall(part, c) ==
    LET toolCallIndex == c.state.functionIndex
        toolCall == [key |-> toolCallIndex, index |-> toolCallIndex, id |-> part.fcName,
                     name |-> part.fcName, arguments |-> gmStringifyArgs(part.fcArgs)]
    IN [state |-> [c.state EXCEPT !.functionIndex = @ + 1,
                                  !.toolCalls = MapSet(@, toolCallIndex, toolCall)],
        results |-> Append(c.results,
                       OpenAIOut(c.state.messageId, "tool_calls", "",
                                 [index |-> toolCallIndex, id |-> part.fcName, name |-> part.fcName,
                                  arguments |-> gmStringifyArgs(part.fcArgs)], "", NoUsageOut))]

\* `data:${mimeType};base64,${inlineData.data}`, mimeType || "image/png"
gmImageUrl(part) ==
    CASE part.mimeType \in {"", "image/png"} /\ part.data = "AAAA" -> "data:image/png;base64,AAAA"
      [] part.mimeType = "image/jpeg" /\ part.data = "AAAA" -> "data:image/jpeg;base64,AAAA"
      [] part.mimeType \in {"", "image/png"} -> "data:image/png;base64,BBBB"
      [] OTHER -> "data:image/jpeg;base64,BBBB"

\* for (const part of content.parts): one part
gmPart(part, c) ==
    IF part.thoughtSignature
    THEN LET c1 == IF part.text # ""
                   THEN [c EXCEPT !.results = Append(@,
                            OpenAIOut(c.state.messageId,
                                      IF part.thought THEN "reasoning" ELSE "content",
                                      part.text, NoTc, "", NoUsageOut))]
                   ELSE c
         IN IF part.fcName # "" THEN gmFunctionCall(part, c1) ELSE c1
    ELSE LET c1 == IF part.text # ""
                   THEN [c EXCEPT !.results = Append(@,
                            OpenAIOut(c.state.messageId, "content", part.text, NoTc, "", NoUsageOut))]
                   ELSE c
             c2 == IF part.fcName # "" THEN gmFunctionCall(part, c1) ELSE c1
         IN IF part.data # ""
            THEN [c2 EXCEPT !.results = Append(@,
                     OpenAIOut(c.state.messageId, "images", gmImageUrl(part), NoTc, "", NoUsageOut))]
            ELSE c2

RECURSIVE gmParts(_, _)
gmParts(parts, c) ==
    IF parts = <<>> THEN c ELSE gmParts(Tail(parts), gmPart(Head(parts), c))

\* candidate.finishReason.toLowerCase()
gmLowerCase(finishReason) ==
    CASE finishReason = "STOP" -> "stop"
      [] finishReason = "MAX_TOKENS" -> "max_tokens"
      [] finishReason = "SAFETY" -> "safety"
      [] OTHER -> finishReason

\* if (candidate.finishReason) { ... }
gmFinish(chunk, c) ==
    IF chunk.finishReason = "" THEN c
    ELSE LET lower == gmLowerCase(chunk.finishReason)
             finishReason == IF lower = "stop" /\ Len(c.state.toolCalls) > 0
                             THEN "tool_calls" ELSE lower
         IN [state |-> [c.state EXCEPT !.finishReason = finishReason],
             results |-> Append(c.results,
                            OpenAIOut(c.state.messageId, "final", "", NoTc, finishReason, NoUsageOut))]

\* if (usage) { state.usage = ... }; x || 0 is 0 for a missing x
gmUsage(chunk, c) ==
    IF ~chunk.usageMetadata.set THEN c
    ELSE LET u == chunk.usageMetadata
             tokens(n) == IF n = -1 THEN 0 ELSE n
         IN [c EXCEPT !.state.usage =
               [set |-> TRUE,
                prompt_tokens |-> tokens(u.promptTokenCount) + tokens(u.thoughtsTokenCount),
                completion_tokens |-> tokens(u.candidatesTokenCount),
                total_tokens |-> tokens(u.totalTokenCount),
                reasoning_tokens |-> IF u.thoughtsTokenCount > 0 THEN u.thoughtsTokenCount ELSE -1]]

\* the whole call, for a chunk that is not null
geminiToOpenAIResponse(chunk, st) ==
    LET c == [state |-> st, results |-> <<>>]
    IN IF ~chunk.hasCandidate THEN c
       ELSE gmUsage(chunk, gmFinish(chunk, gmParts(chunk.parts, gmInitialize(chunk, c))))

(***************************************************************************)
(* Chunks fed to geminiToOpenAIResponse                                    *)
(***************************************************************************)
GeminiChunks ==
    { GmChunk(TRUE, "g1", <<GmPart(FALSE, FALSE, "Hi", "", NoArgs, "", "")>>, "", NoGmUsageIn),
      GmChunk(TRUE, "", <<GmPart(TRUE, TRUE, "hm", "lookup",
                                 [parsed |-> TRUE, value |-> "{\"q\":1}"], "", "")>>, "", NoGmUsageIn),
      GmChunk(TRUE, "", <<GmPart(FALSE, FALSE, "", "lookup", NoArgs, "", ""),
                          GmPart(FALSE, FALSE, "", "calc",
                                 [parsed |-> TRUE, value |-> "{\"n\":2}"], "", "")>>, "", NoGmUsageIn),
      GmChunk(TRUE, "", <<GmPart(FALSE, FALSE, "", "lookup", NoArgs, "", "")>>, "STOP",
              GmUsageIn(TRUE, 3, 2, 5, 10)),
      GmChunk(TRUE, "", <<>>, "STOP", GmUsageIn(TRUE, 3, -1, 5, 8)),
      GmChunk(TRUE, "", <<>>, "stop", NoGmUsageIn),
      GmChunk(TRUE, "", <<>>, "MAX_TOKENS", NoGmUsageIn),
      GmChunk(TRUE, "", <<GmPart(FALSE, FALSE, "", "", NoArgs, "AAAA", "")>>, "",
              GmUsageIn(TRUE, -1, 4, -1, -1)),
      GmChunk(FALSE, "", <<>>, "", GmUsageIn(TRUE, 3, 0, 5, 8)),
      GmChunk(FALSE, "", <<>>, "", NoGmUsageIn) }

\* History of the exchange: the last chunk received (if any), the number of
\* chunks that carried a finishReason on a candidate, and the number of
\* functionCall parts received
NoGmChunk == GmChunk(FALSE, "", <<>>, "", NoGmUsageIn)
gmHistInit ==
    [received |-> FALSE, last |-> NoGmChunk, finishes |-> 0, functionCalls |-> 0]

gmHistNext(h, chunk) ==
    [received |-> TRUE, last |-> chunk,
     finishes |-> IF chunk.hasCandidate /\ chunk.finishReason # ""
                  THEN h.finishes + 1 ELSE h.finishes,
     functionCalls |-> h.functionCalls +
        Cardinality({i \in 1..Len(chunk.parts) : chunk.parts[i].fcName # ""})]

InitGm ==
    /\ gmState = gmStateInit
    /\ gmOut = <<>>
    /\ gmHist = gmHistInit
    /\ gmN = 0

\* one call of geminiToOpenAIResponse(chunk, state) with a chunk that is not null
G2O_Chunk ==
    /\ gmN < MaxGeminiChunks
    /\ \E chunk \in GeminiChunks :
        LET c == geminiToOpenAIResponse(chunk, gmState)
        IN /\ gmState' = c.state
           /\ gmOut' = gmOut \o c.results
           /\ gmHist' = gmHistNext(gmHist, chunk)
    /\ gmN' = gmN + 1
    /\ UNCHANGED <<ocVars, coVars, scn, rqVars, xchVars, gqVars>>

\* if (!chunk) return null
G2O_Null ==
    /\ gmN < MaxGeminiChunks
    /\ gmN' = gmN + 1
    /\ UNCHANGED <<gmState, gmOut, gmHist>>
    /\ UNCHANGED <<ocVars, coVars, scn, rqVars, xchVars, gqVars>>

NextG2O == G2O_Chunk \/ G2O_Null

(***************************************************************************)
(* Two exchanges side by side.  Each has its translator (kind), its own    *)
(* state object, the events it has received and the events emitted for it; *)
(* the calls of the two arrive in any order.                               *)
(***************************************************************************)
Exchanges == {"A", "B"}
Kinds == {"claude", "openai", "gemini"}

\* the events an exchange of each kind receives
ExchangeEvents(kind) ==
    CASE kind = "claude" ->
            { CEvent("message_start", -1, "", "m1", "", ""),
              CEvent("message_start", -1, "", "", "", ""),
              CEvent("content_block_start", 0, "tool_use", "t1", "lookup", ""),
              CEvent("content_block_delta", 0, "input_json_delta", "", "", "x") }
      [] kind = "openai" ->
            { OChunk("r", "c", <<>>, ""),
              OChunk("", "", <<TcDelta(0, "t1", "x")>>, ""),
              OChunk("", "", <<TcDelta(0, "", "y")>>, ""),
              OChunk("", "", <<>>, "stop") }
      [] kind = "gemini" ->
            { GmChunk(TRUE, "g1", <<GmPart(FALSE, FALSE, "c", "", NoArgs, "", ""),
                                    GmPart(TRUE, TRUE, "r", "lookup", NoArgs, "", "")>>, "", NoGmUsageIn),
              GmChunk(TRUE, "", <<GmPart(FALSE, FALSE, "", "lookup",
                                         [parsed |-> TRUE, value |-> "{\"q\":1}"], "AAAA", "")>>,
                      "", NoGmUsageIn),
              GmChunk(TRUE, "", <<>>, "STOP", GmUsageIn(TRUE, 3, 2, 5, 10)),
              GmChunk(FALSE, "", <<>>, "", GmUsageIn(TRUE, 3, -1, 5, 8)) }

\* the state object a caller constructs for an exchange of each kind
ExchangeState(kind) ==
    CASE kind = "claude" -> coStateInit
      [] kind = "openai" -> ocStateInit
      [] kind = "gemini" -> gmStateInit

\* the registered response translator of each kind, called on (chunk, state)
\* as the code of the three translators stands but for the clock
xchTranslate(kind, chunk, st) ==
    CASE kind = "claude" -> claudeToOpenAIResponse(chunk, st)
      [] kind = "openai" -> openaiToClaudeResponse(chunk, st)
      [] kind = "gemini" -> geminiToOpenAIResponse(chunk, st)

\* `msg_${Date.now()}`
xchMessageId(now) == "msg_" \o ToString(now)

\* `${fcName}-${Date.now()}-${toolCallIndex}`
xchToolCallId(fcName, now, toolCallIndex) ==
    fcName \o "-" \o ToString(now) \o "-" \o ToString(toolCallIndex)

\* a message id, the generated one where the translator generated it
xchStampId(id, now) == IF id = "msg_now" THEN xchMessageId(now) ELSE id

\* a tool call of geminiToOpenAIResponse made in this call (its id is still
\* the name alone): the id with the clock and the index in it
xchStampToolCall(kind, tc, now) ==
    IF kind = "gemini" /\ tc.name # "" /\ tc.id = tc.name
    THEN [tc EXCEPT !.id = xchToolCallId(tc.name, now, tc.index)]
    ELSE tc

\* what a call returns and leaves in the state when Date.now() is now: the
\* message id generated for a first event without one (in state.messageId
\* and in the id of every chunk, for openaiToClaudeResponse in the
\* message_start event) and the ids of the tool calls geminiToOpenAIResponse
\* announces
xchStamp(kind, c, now) ==
    IF kind = "openai"
    THEN [c EXCEPT !.results =
            [i \in 1..Len(@) |->
                IF @[i].type = "message_start" THEN [@[i] EXCEPT !.data = xchMessageId(now)]
                ELSE @[i]]]
    ELSE [state |-> [c.state EXCEPT
                        !.messageId = xchStampId(@, now),
                        !.toolCalls = [n \in 1..Len(@) |-> xchStampToolCall(kind, @[n], now)]],
          results |-> [i \in 1..Len(c.results) |->
                         [c.results[i] EXCEPT
                            !.id = xchStampId(@, now),
                            !.tool_call = xchStampToolCall(kind, @, now)]]]

\* created: Math.floor(Date.now() / 1000) of every OpenAI chunk a call returns
xchCreated(kind, c, now) ==
    IF kind = "openai" THEN <<>> ELSE [i \in 1..Len(c.results) |-> now \div 1000]

\* ExchangeCall where claudeToOpenAIResponse numbers a tool call from the
\* clock and not from the counter in the state it is passed
ExchangeCall_clockCounter(kind, chunk, st, now) ==
    IF kind = "claude"
    THEN xchStamp(kind, xchTranslate(kind, chunk, [st EXCEPT !.toolCallIndex = now \div 1000]), now)
    ELSE xchStamp(kind, xchTranslate(kind, chunk, st), now)

\* one call of the translator of an exchange while Date.now() is now
ExchangeCall(kind, chunk, st, now) == xchStamp(kind, xchTranslate(kind, chunk, st), now)

\* the returned objects that share a tool call with the state after a call
\* that returned c: claudeToOpenAIResponse alone appends to an object it has
\* returned
xchSharedNext(kind, shared, chunk, n) ==
    IF kind = "claude" THEN coSharedNext(shared, chunk, n) ELSE shared

\* what was returned for an exchange, as it reads after a call that returned c
xchRead(kind, out, shared, c) ==
    IF kind = "claude" THEN coRead(out \o c.results, shared, c.state.toolCalls)
    ELSE out \o c.results

\* a call for exchange e while Date.now() is now: the translator reads and
\* writes the state object it is passed, and what it returns is emitted for e
xchCall(x, e, chunk, now) ==
    LET c == ExchangeCall(x[e].kind, chunk, x[e].state, now)
        shared == xchSharedNext(x[e].kind, x[e].shared, chunk, Len(x[e].out) + Len(c.results))
    IN [x EXCEPT ![e].state = c.state, ![e].shared = shared,
                 ![e].out = xchRead(x[e].kind, @, shared, c),
                 ![e].created = @ \o xchCreated(x[e].kind, c, now),
                 ![e].received = Append(@, chunk)]

xchIdle ==
    [e \in Exchanges |-> [kind |-> "", state |-> <<>>, out |-> <<>>, shared |-> <<>>,
                          created |-> <<>>, received |-> <<>>, turns |-> 0, last |-> FALSE]]

IdleXch == xch = xchIdle /\ xchNow = 0

InitXch ==
    /\ xchNow = 0
    /\ \E ka, kb \in Kinds :
        xch = [e \in Exchanges |->
                 [kind |-> IF e = "A" THEN ka ELSE kb,
                  state |-> ExchangeState(IF e = "A" THEN ka ELSE kb),
                  out |-> <<>>, shared |-> <<>>, created |-> <<>>, received |-> <<>>,
                  turns |-> 0, last |-> FALSE]]

\* one call for exchange e, a second after the call before it; turns counts
\* the times e got a call right after the other exchange had one
Xch_Call(e) ==
    /\ xch[e].kind # ""
    /\ Len(xch[e].received) < MaxExchangeEvents
    /\ \E chunk \in ExchangeEvents(xch[e].kind) :
        LET x == xchCall(xch, e, chunk, xchNow)
            other == CHOOSE f \in Exchanges : f # e
        IN xch' = [x EXCEPT ![e].turns = IF xch[other].last THEN @ + 1 ELSE @,
                            ![e].last = TRUE,
                            ![other].last = FALSE]
    /\ xchNow' = xchNow + 1000
    /\ UNCHANGED <<ocVars, coVars, scn, rqVars, gmVars, gqVars>>

NextExchanges == Xch_Call("A") \/ Xch_Call("B")

(***************************************************************************)
(* Replay of one tool-call stream through claudeToOpenAIResponse:          *)
(* message_start, content_block_start(tool_use), two input_json_delta,     *)
(* content_block_stop, message_delta(tool_use), message_stop               *)
(***************************************************************************)
ScnIdle == [step |-> -1, msg |-> "", id |-> "", name |-> "", index |-> -1, f1 |-> "", f2 |-> ""]

Scenarios ==
    [step : {0}, msg : {"m1"}, id : {"t1", "t2"}, name : {"lookup", "search"},
     index : {0, 1, 2}, f1 : {"x", "y", "z"}, f2 : {"x", "y", "z"}]

ScnEvents(sc) ==
    << CEvent("message_start", -1, "", sc.msg, "", ""),
       CEvent("content_block_start", sc.index, "tool_use", sc.id, sc.name, ""),
       CEvent("content_block_delta", sc.index, "input_json_delta", "", "", sc.f1),
       CEvent("content_block_delta", sc.index, "input_json_delta", "", "", sc.f2),
       CEvent("content_block_stop", sc.index, "", "", "", ""),
       CEvent("message_delta", -1, "", "", "", "tool_use"),
       CEvent("message_stop", -1, "", "", "", "") >>

ScnLength == Len(ScnEvents(ScnIdle))

InitScn == scn \in Scenarios

\* the next event of the stream goes through claudeToOpenAIResponse
Scn_Event ==
    /\ scn.step >= 0
    /\ scn.step < ScnLength
    /\ LET chunk == ScnEvents(scn)[scn.step + 1]
           c == claudeToOpenAIResponse(chunk, coState)
           shared == coSharedNext(coShared, chunk, Len(coOut) + Len(c.results))
       IN /\ coState' = c.state
          /\ coShared' = shared
          /\ coOut' = coRead(coOut \o c.results, shared, c.state.toolCalls)
          /\ coHist' = [coHist EXCEPT !.sent = @ \o c.results]
    /\ scn' = [scn EXCEPT !.step = @ + 1]
    /\ coN' = coN + 1
    /\ UNCHANGED <<ocVars, rqVars, xchVars, gmVars, gqVars>>

(***************************************************************************)
(* openaiToClaude: messages                                                *)
(***************************************************************************)
\* A message: role; content as a string (ctype "string", text), an array
\* (ctype "array", parts) or absent (ctype "none"); tool_calls;
\* tool_call_id.  A part: type, text, id (tool_use id or tool_use_id),
\* name.  A tool call: type, id, name, arguments.
Msg(role, ctype, text, parts, tool_calls, tool_call_id) ==
    [role |-> role, ctype |-> ctype, text |-> text, parts |-> parts,
     tool_calls |-> tool_calls, tool_call_id |-> tool_call_id]
Part(type, text, id, name) == [type |-> type, text |-> text, id |-> id, name |-> name]
ToolCall(type, id, name, arguments) ==
    [type |-> type, id |-> id, name |-> name, arguments |-> arguments]

\* JSON.parse succeeds on these argument strings
ParseableJSON == {"{}", "{\"q\":1}"}

\* tryParseJSON: the parsed value, or the raw string when parsing fails
tryParseJSON(str) ==
    IF str \in ParseableJSON THEN [parsed |-> TRUE, value |-> str]
    ELSE [parsed |-> FALSE, value |-> str]

NoInput == [parsed |-> FALSE, value |-> ""]

\* A content block of the result: text / tool_use / tool_result / image
Block(type, text, id, name, input, content) ==
    [type |-> type, text |-> text, id |-> id, name |-> name, input |-> input,
     content |-> content, cache_control |-> FALSE]

\* image_url.url values that match /^data:([^;]+);base64,(.+)$/
DataURIs == {"data:image/png;base64,AAAA"}

\* user message, content array: one part (an image part keeps its source,
\* or its url, in text)
rqUserPart(part) ==
    CASE part.type = "text" /\ part.text # "" ->
            <<Block("text", part.text, "", "", NoInput, "")>>
      [] part.type = "tool_result" ->
            <<Block("tool_result", "", part.id, "", NoInput, part.text)>>
      [] part.type = "image_url" /\ part.text \in DataURIs ->
            <<Block("image", "", "", "", NoInput, part.text)>>
      [] part.type = "image" /\ part.text # "" ->
            <<Block("image", "", "", "", NoInput, part.text)>>
      [] OTHER -> <<>>

\* assistant message, content array: one part
rqAssistantPart(part) ==
    CASE part.type = "text" /\ part.text # "" ->
            <<Block("text", part.text, "", "", NoInput, "")>>
      [] part.type = "tool_use" ->
            <<Block("tool_use", "", part.id, part.name, [parsed |-> TRUE, value |-> part.text], "")>>
      [] OTHER -> <<>>

\* assistant message: one entry of msg.tool_calls
rqToolCallBlock(tc) ==
    IF tc.type = "function"
    THEN <<Block("tool_use", "", tc.id, tc.name, tryParseJSON(tc.arguments), "")>>
    ELSE <<>>

\* for (const part of msg.content), user message
RECURSIVE rqUserParts(_)
rqUserParts(parts) ==
    IF parts = <<>> THEN <<>> ELSE rqUserPart(Head(parts)) \o rqUserParts(Tail(parts))

\* for (const part of msg.content), assistant message
RECURSIVE rqAssistantParts(_)
rqAssistantParts(parts) ==
    IF parts = <<>> THEN <<>> ELSE rqAssistantPart(Head(parts)) \o rqAssistantParts(Tail(parts))

\* for (const tc of msg.tool_calls)
RECURSIVE rqToolCallBlocks(_)
rqToolCallBlocks(tcs) ==
    IF tcs = <<>> THEN <<>> ELSE rqToolCallBlock(Head(tcs)) \o rqToolCallBlocks(Tail(tcs))

getContentBlocksFromMessage(msg) ==
    CASE msg.role = "tool" ->
            <<Block("tool_result", "", msg.tool_call_id, "", NoInput, msg.text)>>
      [] msg.role = "user" ->
            (CASE msg.ctype = "string" ->
                    IF msg.text # "" THEN <<Block("text", msg.text, "", "", NoInput, "")>> ELSE <<>>
               [] msg.ctype = "array" -> rqUserParts(msg.parts)
               [] OTHER -> <<>>)
      [] msg.role = "assistant" ->
            (CASE msg.ctype = "array" -> rqAssistantParts(msg.parts)
               [] msg.ctype = "string" /\ msg.text # "" ->
                    <<Block("text", msg.text, "", "", NoInput, "")>>
               [] OTHER -> <<>>)
            \o rqToolCallBlocks(msg.tool_calls)
      [] OTHER -> <<>>

RECURSIVE rqFilter(_, _)
rqFilter(s, types) ==
    IF s = <<>> THEN <<>>
    ELSE (IF Head(s).type \in types THEN <<Head(s)>> ELSE <<>>) \o rqFilter(Tail(s), types)

rqHasType(blocks, type) == \E i \in 1..Len(blocks) : blocks[i].type = type

\* flushCurrentMessage that pushes the message and keeps currentParts
flushCurrentMessage_keepParts(a) ==
    IF a.currentRole # "" /\ Len(a.currentParts) > 0
    THEN [a EXCEPT !.messages = Append(@, [role |-> a.currentRole, content |-> a.currentParts])]
    ELSE a

\* The merge loop threads a = [messages, currentRole, currentParts];
\* currentRole "" is undefined.
flushCurrentMessage(a) ==
    IF a.currentRole # "" /\ Len(a.currentParts) > 0
    THEN [a EXCEPT !.messages = Append(@, [role |-> a.currentRole, content |-> a.currentParts]),
                   !.currentParts = <<>>]
    ELSE a

\* rqOrdinaryMessage that switches the role without flushing
rqOrdinaryMessage_noRoleFlush(a, newRole, blocks) ==
    LET a1 == [a EXCEPT !.currentRole = newRole]
        a2 == [a1 EXCEPT !.currentParts = @ \o blocks]
    IN IF rqHasType(blocks, "tool_use") THEN flushCurrentMessage(a2) ELSE a2

\* the rest of the loop body
rqOrdinaryMessage(a, newRole, blocks) ==
    LET a1 == IF a.currentRole # newRole
              THEN [flushCurrentMessage(a) EXCEPT !.currentRole = newRole]
              ELSE a
        a2 == [a1 EXCEPT !.currentParts = @ \o blocks]
    IN IF rqHasType(blocks, "tool_use") THEN flushCurrentMessage(a2) ELSE a2

\* rqToolResultMessage that treats tool_result blocks like any other block
rqToolResultMessage_merged(a, newRole, blocks) == rqOrdinaryMessage(a, newRole, blocks)

\* if (hasToolResult) { ... continue; }
rqToolResultMessage(a, newRole, blocks) ==
    LET toolResultBlocks == rqFilter(blocks, {"tool_result"})
        otherBlocks == rqFilter(blocks, {"text", "tool_use", "image"})
        a1 == flushCurrentMessage(a)
        a2 == IF Len(toolResultBlocks) > 0
              THEN [a1 EXCEPT !.messages = Append(@, [role |-> "user", content |-> toolResultBlocks])]
              ELSE a1
    IN IF Len(otherBlocks) > 0
       THEN [a2 EXCEPT !.currentRole = newRole, !.currentParts = @ \o otherBlocks]
       ELSE a2

\* for (const msg of nonSystemMessages): one iteration, once blocks holds
\* what getContentBlocksFromMessage(msg) returned
rqMergeBlocks(a, role, blocks) ==
    LET newRole == IF role = "user" \/ role = "tool" THEN "user" ELSE "assistant"
    IN IF rqHasType(blocks, "tool_result")
       THEN rqToolResultMessage(a, newRole, blocks)
       ELSE rqOrdinaryMessage(a, newRole, blocks)

\* for (const msg of nonSystemMessages): one iteration
rqMergeMessage(a, msg) == rqMergeBlocks(a, msg.role, getContentBlocksFromMessage(msg))

RECURSIVE rqMerge(_, _)
rqMerge(a, msgs) ==
    IF msgs = <<>> THEN flushCurrentMessage(a)
    ELSE rqMerge(rqMergeMessage(a, Head(msgs)), Tail(msgs))

RECURSIVE rqNonSystem(_)
rqNonSystem(msgs) ==
    IF msgs = <<>> THEN <<>>
    ELSE (IF Head(msgs).role # "system" THEN <<Head(msgs)>> ELSE <<>>) \o rqNonSystem(Tail(msgs))

\* rqCacheControl that stops at the first assistant message, not the last
rqCacheControl_firstAssistant(messages) ==
    LET cand == {i \in 1..Len(messages) :
                    messages[i].role = "assistant" /\ Len(messages[i].content) > 0}
    IN IF cand = {} THEN messages
       ELSE LET i == CHOOSE m \in cand : \A n \in cand : m <= n
            IN [messages EXCEPT ![i].content[Len(messages[i].content)].cache_control = TRUE]

\* rqCacheControl that marks every block of that message
rqCacheControl_everyBlock(messages) ==
    LET cand == {i \in 1..Len(messages) :
                    messages[i].role = "assistant" /\ Len(messages[i].content) > 0}
    IN IF cand = {} THEN messages
       ELSE LET i == CHOOSE m \in cand : \A n \in cand : n <= m
            IN [messages EXCEPT ![i].content =
                    [j \in 1..Len(@) |-> [@[j] EXCEPT !.cache_control = TRUE]]]

\* cache_control on the last block of the last assistant message that has blocks
rqCacheControl(messages) ==
    LET cand == {i \in 1..Len(messages) :
                    messages[i].role = "assistant" /\ Len(messages[i].content) > 0}
    IN IF cand = {} THEN messages
       ELSE LET i == CHOOSE m \in cand : \A n \in cand : n <= m
            IN [messages EXCEPT ![i].content[Len(messages[i].content)].cache_control = TRUE]

\* result.messages of openaiToClaude(model, body, stream)
openaiToClaude(messages) ==
    rqCacheControl(
        rqMerge([messages |-> <<>>, currentRole |-> "", currentParts |-> <<>>],
                rqNonSystem(messages)).messages)

(***************************************************************************)
(* openaiToClaude: system, tools, tool_choice                              *)
(***************************************************************************)
\* the imported preamble text
CLAUDE_SYSTEM_PROMPT == "CLAUDE_SYSTEM_PROMPT"

\* A text is the sequence of its lines' fragments, "\n" between them.
\* parts.join("\n") without the separator
RECURSIVE rqJoin_noSeparator(_)
rqJoin_noSeparator(parts) ==
    IF parts = <<>> THEN <<>> ELSE Head(parts) \o rqJoin_noSeparator(Tail(parts))

\* parts.join("\n")
RECURSIVE rqJoin(_)
rqJoin(parts) ==
    IF parts = <<>> THEN <<>>
    ELSE IF Len(parts) = 1 THEN Head(parts)
    ELSE Head(parts) \o <<"\n">> \o rqJoin(Tail(parts))

\* content.filter(c => c.type === "text").map(c => c.text)
RECURSIVE rqTextsOf(_)
rqTextsOf(parts) ==
    IF parts = <<>> THEN <<>>
    ELSE (IF Head(parts).type = "text" THEN <<Str(Head(parts).text)>> ELSE <<>>)
         \o rqTextsOf(Tail(parts))

\* extractTextContent(content), content taken from a message
extractTextContent(msg) ==
    CASE msg.ctype = "string" -> Str(msg.text)
      [] msg.ctype = "array" -> rqJoin(rqTextsOf(msg.parts))
      [] OTHER -> <<>>

\* for (const msg of body.messages) if (msg.role === "system") systemParts.push(...)
RECURSIVE rqSystemParts(_)
rqSystemParts(msgs) ==
    IF msgs = <<>> THEN <<>>
    ELSE (IF Head(msgs).role = "system"
          THEN <<IF Head(msgs).ctype = "string" THEN Str(Head(msgs).text)
                 ELSE extractTextContent(Head(msgs))>>
          ELSE <<>>)
         \o rqSystemParts(Tail(msgs))

NoCache == [type |-> "", ttl |-> ""]
SysBlock(text, cache_control) == [type |-> "text", text |-> text, cache_control |-> cache_control]

\* result.system
rqSystem(messages) ==
    LET systemParts == rqSystemParts(messages)
        claudeCodePrompt == SysBlock(<<CLAUDE_SYSTEM_PROMPT>>, NoCache)
    IN IF Len(systemParts) > 0
       THEN <<claudeCodePrompt,
              SysBlock(rqJoin(systemParts), [type |-> "ephemeral", ttl |-> "1h"])>>
       ELSE <<claudeCodePrompt>>

\* A tool of body.tools: its own fields and, when it has one, its function
\* object; "" is an absent field.
ToolData(name, description, parameters, input_schema) ==
    [name |-> name, description |-> description, parameters |-> parameters,
     input_schema |-> input_schema]
NoToolData == ToolData("", "", "", "")
ToolIn(type, hasFunction, function, own) ==
    [type |-> type, hasFunction |-> hasFunction, function |-> function, own |-> own]
DefaultSchema == "{type:object,properties:{},required:[]}"

\* body.tools.map(tool => ...): one tool
rqTool(tool) ==
    LET toolData == IF tool.type = "function" /\ tool.hasFunction THEN tool.function ELSE tool.own
    IN [name |-> toolData.name,
        description |-> toolData.description,
        input_schema |-> IF toolData.parameters # "" THEN toolData.parameters
                         ELSE IF toolData.input_schema # "" THEN toolData.input_schema
                         ELSE DefaultSchema,
        cache_control |-> NoCache]

\* result.tools for body.tools = [has, list]; has FALSE is no tools array
rqTools(tools) ==
    IF ~tools.has THEN [has |-> FALSE, list |-> <<>>]
    ELSE LET mapped == [i \in 1..Len(tools.list) |-> rqTool(tools.list[i])]
         IN [has |-> TRUE,
             list |-> IF Len(mapped) > 0
                      THEN [mapped EXCEPT ![Len(mapped)].cache_control =
                                               [type |-> "ephemeral", ttl |-> "1h"]]
                      ELSE mapped]

\* A tool choice: absent, a string (str), or an object with its type, its
\* function object (hasFunction, function = its name) and its name.
ToolChoice(kind, str, type, hasFunction, function, name) ==
    [kind |-> kind, str |-> str, type |-> type, hasFunction |-> hasFunction,
     function |-> function, name |-> name]
NoToolChoice == ToolChoice("absent", "", "", FALSE, "", "")
ClaudeChoice(type, name) == ToolChoice("object", "", type, FALSE, "", name)

convertOpenAIToolChoice(choice) ==
    IF choice.kind = "absent" \/ (choice.kind = "string" /\ choice.str = "")
    THEN ClaudeChoice("auto", "")
    ELSE IF choice.kind = "object" /\ choice.type # "" THEN choice
    ELSE IF choice.kind = "string" /\ choice.str \in {"auto", "none"} THEN ClaudeChoice("auto", "")
    ELSE IF choice.kind = "string" /\ choice.str = "required" THEN ClaudeChoice("any", "")
    ELSE IF choice.kind = "object" /\ choice.hasFunction THEN ClaudeChoice("tool", choice.function)
    ELSE ClaudeChoice("auto", "")

\* result.tool_choice: set only when body.tool_choice is truthy
rqToolChoice(choice) ==
    IF choice.kind = "absent" \/ (choice.kind = "string" /\ choice.str = "")
    THEN NoToolChoice
    ELSE convertOpenAIToolChoice(choice)

\* adjustMaxTokens(body): the token budget the policy computes from the
\* max_tokens the body gives (-1: none); it reads the body and assigns to
\* nothing
adjustMaxTokens(opts) == [policy |-> "token-budget", given |-> opts.max_tokens]

\* result.max_tokens, result.system, result.tools and result.tool_choice of
\* openaiToClaude(model, body, stream)
openaiToClaudeRest(messages, opts) ==
    [max_tokens |-> adjustMaxTokens(opts),
     system |-> rqSystem(messages),
     tools |-> rqTools(opts.tools),
     tool_choice |-> rqToolChoice(opts.tool_choice)]

(***************************************************************************)
(* Requests fed to openaiToClaude                                          *)
(***************************************************************************)
RequestMessages ==
    { Msg("system", "string", "Be terse", <<>>, <<>>, ""),
      Msg("system", "array", "", <<Part("text", "a", "", ""), Part("image_url", "u", "", ""),
                                   Part("text", "b", "", "")>>, <<>>, ""),
      Msg("user", "string", "hi", <<>>, <<>>, ""),
      Msg("user", "string", "", <<>>, <<>>, ""),
      Msg("user", "array", "", <<Part("text", "see", "", ""), Part("tool_result", "res", "a", "")>>, <<>>, ""),
      Msg("assistant", "string", "ok", <<>>, <<>>, ""),
      Msg("assistant", "none", "", <<>>, <<ToolCall("function", "a", "lookup", "{\"q\":1}")>>, ""),
      Msg("assistant", "string", "ok", <<>>,
          <<ToolCall("function", "a", "lookup", "{}"), ToolCall("function", "b", "lookup", "oops")>>, ""),
      Msg("assistant", "array", "", <<Part("text", "ok", "", ""), Part("tool_use", "{}", "a", "lookup")>>, <<>>, ""),
      Msg("tool", "string", "res_a", <<>>, <<>>, "a"),
      Msg("tool", "string", "res_b", <<>>, <<>>, "b") }

RECURSIVE SeqsUpTo(_, _)
SeqsUpTo(S, n) ==
    IF n = 0 THEN {<<>>}
    ELSE LET shorter == SeqsUpTo(S, n - 1)
         IN shorter \cup {Append(q, x) : q \in {t \in shorter : Len(t) = n - 1}, x \in S}

NoTools == [has |-> FALSE, list |-> <<>>]
NoOpts == [tools |-> NoTools, tool_choice |-> NoToolChoice, max_tokens |-> -1]
NoRest == [max_tokens |-> adjustMaxTokens(NoOpts), system |-> <<>>, tools |-> NoTools,
           tool_choice |-> NoToolChoice]

RequestTools ==
    { ToolIn("function", TRUE, ToolData("lookup", "find", "{q}", ""), NoToolData),
      ToolIn("function", TRUE, ToolData("", "anonymous", "", ""), NoToolData),
      ToolIn("", FALSE, NoToolData, ToolData("calc", "", "", "{n}")),
      ToolIn("function", FALSE, NoToolData, ToolData("bare", "", "", "")) }

RequestToolChoices ==
    { NoToolChoice,
      ToolChoice("string", "", "", FALSE, "", ""),
      ToolChoice("string", "auto", "", FALSE, "", ""),
      ToolChoice("string", "none", "", FALSE, "", ""),
      ToolChoice("string", "required", "", FALSE, "", ""),
      ToolChoice("string", "any", "", FALSE, "", ""),
      ToolChoice("object", "", "function", TRUE, "lookup", ""),
      ToolChoice("object", "", "", TRUE, "lookup", ""),
      ToolChoice("object", "", "tool", FALSE, "", "lookup"),
      ToolChoice("object", "", "any", FALSE, "", ""),
      ToolChoice("object", "", "", FALSE, "", "") }

RequestOpts ==
    { [tools |-> t, tool_choice |-> c, max_tokens |-> m] :
        t \in {NoTools} \cup {[has |-> TRUE, list |-> l] : l \in SeqsUpTo(RequestTools, 2)},
        c \in RequestToolChoices,
        m \in {-1, 4096} }

(***************************************************************************)
(* openaiToClaude: the objects of a call.  An object is named by where it  *)
(* is made: <<"literal", k, j>> is the object literal pushed for part j    *)
(* (0: the content as a whole, parts first, then tool calls) of body       *)
(* message k, <<"literal", 0, i>> the one body.tools.map returns for tool  *)
(* i; <<"part", k, j>>, <<"content", k, j>>, <<"source", k, j>>,           *)
(* <<"input", k, j>>, <<"schema", 0, i>> and <<"tool_choice", 0, 0>> are   *)
(* objects of the body.  self is the object a block is, holds the objects  *)
(* of the body its fields refer to.                                        *)
(***************************************************************************)
rqIsBodyObject(o) == o[1] # "literal"

\* user content part j of message k: blocks.push({ type: "text", ... }),
\* { type: "tool_result", ..., content: part.content }, { type: "image",
\* source: { ... } } and { type: "image", source: part.source }
rqUserPartObjects(part, k, j) ==
    [i \in 1..Len(rqUserPart(part)) |->
        [self |-> <<"literal", k, j>>,
         holds |-> CASE part.type = "tool_result" -> {<<"content", k, j>>}
                     [] part.type = "image" -> {<<"source", k, j>>}
                     [] OTHER -> {}]]

\* assistant content part j of message k: blocks.push({ type: "text", ... })
\* and { type: "tool_use", ..., input: part.input }
rqAssistantPartObjects(part, k, j) ==
    [i \in 1..Len(rqAssistantPart(part)) |->
        [self |-> <<"literal", k, j>>,
         holds |-> IF part.type = "tool_use" THEN {<<"input", k, j>>} ELSE {}]]

\* entry j of msg.tool_calls: blocks.push({ type: "tool_use", ..., input:
\* tryParseJSON(tc.function.arguments) }), the arguments being a string
rqToolCallObjects(tc, k, j) ==
    [i \in 1..Len(rqToolCallBlock(tc)) |-> [self |-> <<"literal", k, j>>, holds |-> {}]]

RECURSIVE rqUserPartsObjects(_, _, _)
rqUserPartsObjects(parts, k, j) ==
    IF j > Len(parts) THEN <<>>
    ELSE rqUserPartObjects(parts[j], k, j) \o rqUserPartsObjects(parts, k, j + 1)

RECURSIVE rqAssistantPartsObjects(_, _, _)
rqAssistantPartsObjects(parts, k, j) ==
    IF j > Len(parts) THEN <<>>
    ELSE rqAssistantPartObjects(parts[j], k, j) \o rqAssistantPartsObjects(parts, k, j + 1)

RECURSIVE rqToolCallsObjects(_, _, _, _)
rqToolCallsObjects(tcs, k, j, from) ==
    IF j > Len(tcs) THEN <<>>
    ELSE rqToolCallObjects(tcs[j], k, from + j) \o rqToolCallsObjects(tcs, k, j + 1, from)

\* rqBlockObjects where the parts of an assistant content array are pushed
\* as they are
rqBlockObjects_partsPushed(msg, k) ==
    IF msg.role = "assistant" /\ msg.ctype = "array"
    THEN [i \in 1..Len(rqAssistantPartsObjects(msg.parts, k, 1)) |->
             [self |-> <<"part", k, rqAssistantPartsObjects(msg.parts, k, 1)[i].self[3]>>,
              holds |-> rqAssistantPartsObjects(msg.parts, k, 1)[i].holds]]
         \o rqToolCallsObjects(msg.tool_calls, k, 1, Len(msg.parts))
    ELSE [i \in 1..Len(getContentBlocksFromMessage(msg)) |->
             [self |-> <<"literal", k, i>>, holds |-> {}]]

\* for each block getContentBlocksFromMessage(msg) pushes for body message
\* k, in order, the object it is and the objects of the body it holds
rqBlockObjects(msg, k) ==
    CASE msg.role = "tool" ->
            <<[self |-> <<"literal", k, 0>>, holds |-> {<<"content", k, 0>>}]>>
      [] msg.role = "user" ->
            (CASE msg.ctype = "string" ->
                    IF msg.text # "" THEN <<[self |-> <<"literal", k, 0>>, holds |-> {}]>> ELSE <<>>
               [] msg.ctype = "array" -> rqUserPartsObjects(msg.parts, k, 1)
               [] OTHER -> <<>>)
      [] msg.role = "assistant" ->
            (CASE msg.ctype = "array" -> rqAssistantPartsObjects(msg.parts, k, 1)
               [] msg.ctype = "string" /\ msg.text # "" ->
                    <<[self |-> <<"literal", k, 0>>, holds |-> {}]>>
               [] OTHER -> <<>>)
            \o rqToolCallsObjects(msg.tool_calls, k, 1, Len(msg.parts))
      [] OTHER -> <<>>

\* the blocks of body message k as the merge loop sees them: type, the
\* cache_control it may assign, and the object behind
rqObjectBlocks(msg, k) ==
    LET blocks == getContentBlocksFromMessage(msg)
        objects == rqBlockObjects(msg, k)
    IN [i \in 1..Len(objects) |->
          [type |-> blocks[i].type, cache_control |-> FALSE,
           self |-> objects[i].self, holds |-> objects[i].holds]]

\* the merge loop over the messages of the body from the k-th on, on the
\* objects: body.messages.filter(m => m.role !== "system"), then the loop
RECURSIVE rqMergeObjects(_, _, _)
rqMergeObjects(a, messages, k) ==
    IF k > Len(messages) THEN flushCurrentMessage(a)
    ELSE rqMergeObjects(
            IF messages[k].role = "system" THEN a
            ELSE rqMergeBlocks(a, messages[k].role, rqObjectBlocks(messages[k], k)),
            messages, k + 1)

\* result.messages as objects, lastBlock.cache_control assigned
rqMessageObjects(messages) ==
    rqCacheControl(
        rqMergeObjects([messages |-> <<>>, currentRole |-> "", currentParts |-> <<>>],
                       messages, 1).messages)

\* every block object of result.messages
rqBlocksOfObjects(result) ==
    UNION {{result[i].content[j] : j \in 1..Len(result[i].content)} : i \in 1..Len(result)}

\* the object body.tools.map returns for tool i: an object literal whose
\* input_schema is toolData.parameters || toolData.input_schema || a literal
rqToolObject(tool, i) ==
    LET toolData == IF tool.type = "function" /\ tool.hasFunction THEN tool.function ELSE tool.own
    IN [self |-> <<"literal", 0, i>>,
        holds |-> IF toolData.parameters # "" \/ toolData.input_schema # ""
                  THEN {<<"schema", 0, i>>} ELSE {}]

\* result.tool_choice: convertOpenAIToolChoice returns the choice itself
\* when it is an object with a type, an object literal otherwise
rqToolChoiceObject(choice) ==
    IF choice.kind = "object" /\ choice.type # ""
    THEN [self |-> <<"tool_choice", 0, 0>>, holds |-> {}]
    ELSE [self |-> <<"literal", 0, 0>>, holds |-> {}]

\* the objects one call assigns a property to, its locals and the result
\* object aside, objects being result.messages as objects: lastBlock (lastBlock.cache_control = ...) and the last
\* element of result.tools
rqWrites(objects, opts) ==
    {b.self : b \in {o \in rqBlocksOfObjects(objects) : o.cache_control = TRUE}}
    \cup
    (IF opts.tools.has /\ Len(opts.tools.list) > 0
     THEN {rqToolObject(opts.tools.list[Len(opts.tools.list)], Len(opts.tools.list)).self}
     ELSE {})

\* the objects of the body that the result of a call refers to, objects
\* being result.messages as objects
rqShared(objects, opts) ==
    LET blocks == rqBlocksOfObjects(objects)
        tools == IF opts.tools.has
                 THEN {rqToolObject(opts.tools.list[i], i) : i \in 1..Len(opts.tools.list)}
                 ELSE {}
        choice == IF rqToolChoice(opts.tool_choice) = NoToolChoice THEN {}
                  ELSE {rqToolChoiceObject(opts.tool_choice)}
        all == blocks \cup tools \cup choice
    IN {o.self : o \in {x \in all : rqIsBodyObject(x.self)}} \cup UNION {o.holds : o \in all}

\* an object of the body once a property has been assigned to it
rqAssigned(object) ==
    [f \in DOMAIN object \cup {"cache_control"} |->
        IF f = "cache_control" THEN "ephemeral" ELSE object[f]]

\* body.messages after a call that assigned to the objects of writes
rqMessagesAfter(messages, writes) ==
    IF \A o \in writes : ~rqIsBodyObject(o) THEN messages
    ELSE [k \in 1..Len(messages) |->
            [messages[k] EXCEPT !.parts =
                [j \in 1..Len(messages[k].parts) |->
                    IF <<"part", k, j>> \in writes THEN rqAssigned(messages[k].parts[j])
                    ELSE messages[k].parts[j]]]]

\* body.tools, body.tool_choice and body.max_tokens after such a call
rqOptsAfter(opts, writes) ==
    IF \A o \in writes : ~rqIsBodyObject(o) THEN opts
    ELSE [opts EXCEPT
            !.tools.list = [i \in 1..Len(opts.tools.list) |->
                               IF <<"tool", 0, i>> \in writes THEN rqAssigned(opts.tools.list[i])
                               ELSE opts.tools.list[i]],
            !.tool_choice = IF <<"tool_choice", 0, 0>> \in writes THEN rqAssigned(@) ELSE @]

\* no call made yet; count is the number of calls made on the body, given
\* the body as the first call received it, assigned the objects the calls
\* assigned to, shared the objects of the body their results refer to,
\* first what the first call returned
NoCalls == [count |-> 0, given |-> <<>>, assigned |-> {}, shared |-> {}, first |-> <<>>]

IdleRq ==
    /\ rqBody = <<>> /\ rqResult = <<>> /\ rqDone = TRUE /\ rqOpts = NoOpts /\ rqRest = NoRest
    /\ rqCalls = NoCalls

\* a request: messages with no tools, or a short conversation with tools,
\* a tool choice and a max_tokens
InitRq ==
    /\ \/ rqBody \in SeqsUpTo(RequestMessages, MaxMessages) /\ rqOpts = NoOpts
       \/ rqBody \in SeqsUpTo({Msg("user", "string", "hi", <<>>, <<>>, "")}, 1)
          /\ rqOpts \in RequestOpts
    /\ rqResult = <<>>
    /\ rqRest = NoRest
    /\ rqDone = FALSE
    /\ rqCalls = NoCalls

\* one call of openaiToClaude(model, body, stream): what it returns, and
\* what its assignments leave in the body
Rq_Translate ==
    /\ ~rqDone
    /\ \E result \in {openaiToClaude(rqBody)}, rest \in {openaiToClaudeRest(rqBody, rqOpts)},
          objects \in {rqMessageObjects(rqBody)} :
       \E writes \in {rqWrites(objects, rqOpts)} :
          /\ rqResult' = result
          /\ rqRest' = rest
          /\ rqBody' = rqMessagesAfter(rqBody, writes)
          /\ rqOpts' = rqOptsAfter(rqOpts, writes)
          /\ rqCalls' = [count |-> 1, given |-> <<rqBody, rqOpts>>,
                         assigned |-> writes,
                         shared |-> rqShared(objects, rqOpts),
                         first |-> <<result, rest>>]
    /\ rqDone' = TRUE
    /\ UNCHANGED <<ocVars, coVars, scn, xchVars, gmVars, gqVars>>

\* a second call of openaiToClaude(model, body, stream), on the body as the
\* first call left it
Rq_TranslateAgain ==
    /\ rqDone
    /\ rqCalls.count = 1
    /\ rqResult' = openaiToClaude(rqBody)
    /\ rqRest' = openaiToClaudeRest(rqBody, rqOpts)
    /\ \E objects \in {rqMessageObjects(rqBody)} :
       \E writes \in {rqWrites(objects, rqOpts)} :
          /\ rqBody' = rqMessagesAfter(rqBody, writes)
          /\ rqOpts' = rqOptsAfter(rqOpts, writes)
          /\ rqCalls' = [rqCalls EXCEPT !.count = 2,
                                        !.assigned = @ \cup writes,
                                        !.shared = @ \cup rqShared(objects, rqOpts)]
    /\ UNCHANGED <<rqDone, ocVars, coVars, scn, xchVars, gmVars, gqVars>>

(***************************************************************************)
(* openaiToGeminiBase and openaiToGeminiCLI                                *)
(***************************************************************************)
DEFAULT_THINKING_GEMINI_SIGNATURE == "DEFAULT_THINKING_GEMINI_SIGNATURE"
DEFAULT_SAFETY_SETTINGS == "DEFAULT_SAFETY_SETTINGS"

\* generationConfig inputs of the body and the fields they set (-1: undefined)
GenParams(temperature, top_p, top_k, max_tokens) ==
    [temperature |-> temperature, top_p |-> top_p, top_k |-> top_k, max_tokens |-> max_tokens]
NoGenParams == GenParams(-1, -1, -1, -1)

\* body.thinking: its type ("" when there is no thinking object) and
\* budget_tokens (-1: missing)
Thinking(type, budget_tokens) == [type |-> type, budget_tokens |-> budget_tokens]
NoThinking == Thinking("", -1)

\* The arguments of a call: model and the fields of body that are read
GqBody(model, messages, tools, gen, reasoning_effort, thinking) ==
    [model |-> model, messages |-> messages, tools |-> tools, gen |-> gen,
     reasoning_effort |-> reasoning_effort, thinking |-> thinking]

\* A part of a contents entry: text / functionCall / functionResponse /
\* inlineData.  A functionCall carries thoughtSignature, id, name, args; a
\* functionResponse id, name, response; inlineData its mimeType (name) and
\* data (text).
NoResponse == [wrapped |-> FALSE, parsed |-> FALSE, value |-> ""]
GqPart(kind, text, thoughtSignature, id, name, args, response) ==
    [kind |-> kind, text |-> text, thoughtSignature |-> thoughtSignature, id |-> id,
     name |-> name, args |-> args, response |-> response]
GqText(text) == GqPart("text", text, "", "", "", NoInput, NoResponse)
GqContent(role, parts) == [role |-> role, parts |-> parts]

\* tryParseJSON of the Gemini helpers: the strings JSON.parse accepts, and
\* the type of the value ("object", "number", "null")
GqJSONType(str) ==
    CASE str \in {"{}", "{\"q\":1}"} -> "object"
      [] str = "5" -> "number"
      [] str = "null" -> "null"
      [] OTHER -> ""
gqTryParseJSON(str) ==
    IF GqJSONType(str) # "" THEN [parsed |-> TRUE, value |-> str]
    ELSE [parsed |-> FALSE, value |-> str]

\* extractTextContent of the Gemini helpers, on the content of a message
gqExtractTextContent(msg) == extractTextContent(msg)

\* convertOpenAIContentToParts: one element of a content array
gqContentPart(part) ==
    CASE part.type = "text" /\ part.text # "" -> <<GqText(part.text)>>
      [] part.type = "image_url" /\ part.text = "data:image/png;base64,AAAA" ->
            <<GqPart("inlineData", "AAAA", "", "", "image/png", NoInput, NoResponse)>>
      [] OTHER -> <<>>

RECURSIVE gqContentParts(_)
gqContentParts(parts) ==
    IF parts = <<>> THEN <<>> ELSE gqContentPart(Head(parts)) \o gqContentParts(Tail(parts))

\* convertOpenAIContentToParts(content)
convertOpenAIContentToParts(msg) ==
    CASE msg.ctype = "string" -> IF msg.text # "" THEN <<GqText(msg.text)>> ELSE <<>>
      [] msg.ctype = "array" -> gqContentParts(msg.parts)
      [] OTHER -> <<>>

\* tcID2Name[fid] after the first loop: the name of the last function tool
\* call with that id, a truthy id and a truthy name ("" when there is none)
RECURSIVE gqNameInCalls(_, _, _)
gqNameInCalls(tcs, fid, name) ==
    IF tcs = <<>> THEN name
    ELSE gqNameInCalls(Tail(tcs), fid,
            IF Head(tcs).type = "function" /\ Head(tcs).id # "" /\ Head(tcs).name # ""
               /\ Head(tcs).id = fid
            THEN Head(tcs).name ELSE name)

RECURSIVE tcID2Name(_, _, _)
tcID2Name(messages, fid, name) ==
    IF messages = <<>> THEN name
    ELSE tcID2Name(Tail(messages), fid,
            IF Head(messages).role = "assistant"
            THEN gqNameInCalls(Head(messages).tool_calls, fid, name) ELSE name)

\* toolResponses[fid] after the second loop: the content of the last tool
\* message with that tool_call_id ("" when there is none)
RECURSIVE toolResponses(_, _, _)
toolResponses(messages, fid, content) ==
    IF messages = <<>> THEN content
    ELSE toolResponses(Tail(messages), fid,
            IF Head(messages).role = "tool" /\ Head(messages).tool_call_id # ""
               /\ Head(messages).tool_call_id = fid
            THEN Head(messages).text ELSE content)

\* the name taken from an id of the form "ToolName-timestamp-index":
\* fid.split("-"), all but the last two pieces when there are more than two
gqNameFromId(fid) ==
    CASE fid = "lookup-17-0" -> "lookup"
      [] OTHER -> fid

\* functionResponse.response for the stored content resp: the parsed
\* content, wrapped as {result: ...} when it is null or not an object,
\* under the key result
gqResponse(resp) ==
    LET r == IF resp = "" THEN "{}" ELSE resp
        parsedResp == gqTryParseJSON(r)
    IN IF parsedResp.parsed /\ GqJSONType(r) = "null"
       THEN [wrapped |-> TRUE, parsed |-> FALSE, value |-> r]
       ELSE IF parsedResp.parsed /\ GqJSONType(r) = "object"
       THEN [wrapped |-> FALSE, parsed |-> TRUE, value |-> r]
       ELSE [wrapped |-> TRUE, parsed |-> parsedResp.parsed, value |-> r]

\* gqFunctionResponse looking the content up by the function name
gqFunctionResponse_byName(messages, fid) ==
    LET inMap == tcID2Name(messages, fid, "")
        name == IF inMap # "" THEN inMap ELSE gqNameFromId(fid)
    IN GqPart("functionResponse", "", "", fid, name, NoInput,
              gqResponse(toolResponses(messages, name, "")))

\* for (const fid of toolCallIds): one functionResponse part
gqFunctionResponse(messages, fid) ==
    LET inMap == tcID2Name(messages, fid, "")
        name == IF inMap # "" THEN inMap ELSE gqNameFromId(fid)
    IN GqPart("functionResponse", "", "", fid, name, NoInput,
              gqResponse(toolResponses(messages, fid, "")))

\* for (const tc of msg.tool_calls): the functionCall part of a function call
gqFunctionCall(tc) ==
    IF tc.type # "function" THEN <<>>
    ELSE <<GqPart("functionCall", "", DEFAULT_THINKING_GEMINI_SIGNATURE, tc.id, tc.name,
                  gqTryParseJSON(IF tc.arguments = "" THEN "{}" ELSE tc.arguments), NoResponse)>>

RECURSIVE gqFunctionCalls(_)
gqFunctionCalls(tcs) ==
    IF tcs = <<>> THEN <<>> ELSE gqFunctionCall(Head(tcs)) \o gqFunctionCalls(Tail(tcs))

\* an assistant message: its contents entries
gqAssistant(messages, msg) ==
    LET text == IF msg.ctype = "none" THEN ""
                ELSE IF msg.ctype = "string" THEN msg.text ELSE gqExtractTextContent(msg)
        textParts == IF text # "" THEN <<GqText(text)>> ELSE <<>>
        calls == gqFunctionCalls(msg.tool_calls)
        parts == textParts \o calls
        toolParts == [i \in 1..Len(calls) |-> gqFunctionResponse(messages, calls[i].id)]
    IN (IF Len(parts) > 0 THEN <<GqContent("model", parts)>> ELSE <<>>)
       \o (IF Len(toolParts) > 0 THEN <<GqContent("user", toolParts)>> ELSE <<>>)

\* for (let i = 0; ...): one message; r = [contents, systemInstruction]
gqMessage(messages, msg, r) ==
    CASE msg.role = "system" /\ Len(messages) > 1 ->
            [r EXCEPT !.systemInstruction =
                [set |-> TRUE, role |-> "user",
                 text |-> IF msg.ctype = "string" THEN msg.text ELSE gqExtractTextContent(msg)]]
      [] msg.role = "user" \/ (msg.role = "system" /\ Len(messages) = 1) ->
            LET parts == convertOpenAIContentToParts(msg)
            IN IF Len(parts) > 0
               THEN [r EXCEPT !.contents = Append(@, GqContent("user", parts))]
               ELSE r
      [] msg.role = "assistant" ->
            [r EXCEPT !.contents = @ \o gqAssistant(messages, msg)]
      [] OTHER -> r

RECURSIVE gqMessages(_, _, _)
gqMessages(messages, rest, r) ==
    IF rest = <<>> THEN r
    ELSE gqMessages(messages, Tail(rest), gqMessage(messages, Head(rest), r))

GqDefaultSchema == "{type:object,properties:{}}"

\* for (const t of body.tools): the functionDeclarations
RECURSIVE gqDeclarations(_)
gqDeclarations(tools) ==
    IF tools = <<>> THEN <<>>
    ELSE (IF Head(tools).type = "function" /\ Head(tools).hasFunction
          THEN <<[name |-> Head(tools).function.name,
                  description |-> Head(tools).function.description,
                  parameters |-> IF Head(tools).function.parameters # ""
                                 THEN Head(tools).function.parameters ELSE GqDefaultSchema,
                  parametersJsonSchema |-> ""]>>
          ELSE <<>>) \o gqDeclarations(Tail(tools))

\* result.tools: [{functionDeclarations}] when there is a declaration
gqTools(tools) ==
    LET functionDeclarations == IF tools.has THEN gqDeclarations(tools.list) ELSE <<>>
    IN [has |-> Len(functionDeclarations) > 0, functionDeclarations |-> functionDeclarations]

NoThinkingConfig == [set |-> FALSE, thinkingBudget |-> -1, include_thoughts |-> FALSE]
NoSystemInstruction == [set |-> FALSE, role |-> "", text |-> ""]

openaiToGeminiBase(body) ==
    LET r == gqMessages(body.messages, body.messages,
                        [contents |-> <<>>, systemInstruction |-> NoSystemInstruction])
    IN [model |-> body.model,
        contents |-> r.contents,
        generationConfig |->
            [temperature |-> body.gen.temperature, topP |-> body.gen.top_p,
             topK |-> body.gen.top_k, maxOutputTokens |-> body.gen.max_tokens,
             thinkingConfig |-> NoThinkingConfig],
        safetySettings |-> DEFAULT_SAFETY_SETTINGS,
        systemInstruction |-> r.systemInstruction,
        tools |-> gqTools(body.tools)]

\* model.toLowerCase().includes("claude")
gqIsClaude(model) == model \in {"claude-sonnet-4", "Claude-Opus"}

\* cleanJSONSchemaForAntigravity: the schema without the fields the target
\* API does not accept
cleanJSONSchemaForAntigravity(schema) ==
    CASE schema = "{q,$schema}" -> "{q}"
      [] OTHER -> schema

\* gqBudget with the default budget for a missing effort as well
gqBudget_always(reasoning_effort, thinkingConfig) ==
    [set |-> TRUE,
     thinkingBudget |-> CASE reasoning_effort = "low" -> 1024
                          [] reasoning_effort = "medium" -> 8192
                          [] reasoning_effort = "high" -> 32768
                          [] OTHER -> 8192,
     include_thoughts |-> TRUE]

\* if (body.reasoning_effort) { ... budgetMap[body.reasoning_effort] || 8192 }
gqBudget(reasoning_effort, thinkingConfig) ==
    IF reasoning_effort = "" THEN thinkingConfig
    ELSE [set |-> TRUE,
          thinkingBudget |-> CASE reasoning_effort = "low" -> 1024
                               [] reasoning_effort = "medium" -> 8192
                               [] reasoning_effort = "high" -> 32768
                               [] OTHER -> 8192,
          include_thoughts |-> TRUE]

\* if (body.thinking?.type === "enabled" && body.thinking.budget_tokens) { ... }
gqThinking(thinking, thinkingConfig) ==
    IF thinking.type = "enabled" /\ thinking.budget_tokens > 0
    THEN [set |-> TRUE, thinkingBudget |-> thinking.budget_tokens, include_thoughts |-> TRUE]
    ELSE thinkingConfig

\* for (const fn of gemini.tools[0].functionDeclarations): one declaration
gqCleanDeclaration(fn, isClaude) ==
    IF fn.parameters = "" THEN fn
    ELSE IF isClaude
    THEN [fn EXCEPT !.parameters = cleanJSONSchemaForAntigravity(fn.parameters)]
    ELSE [fn EXCEPT !.parametersJsonSchema = cleanJSONSchemaForAntigravity(fn.parameters),
                    !.parameters = ""]

openaiToGeminiCLI(body) ==
    LET gemini == openaiToGeminiBase(body)
        isClaude == gqIsClaude(body.model)
        thinkingConfig == gqThinking(body.thinking,
                             gqBudget(body.reasoning_effort, gemini.generationConfig.thinkingConfig))
    IN [gemini EXCEPT
          !.generationConfig.thinkingConfig = thinkingConfig,
          !.tools.functionDeclarations =
              [i \in 1..Len(@) |-> gqCleanDeclaration(@[i], isClaude)]]

(***************************************************************************)
(* Requests fed to openaiToGeminiCLI                                       *)
(***************************************************************************)
GeminiMessages ==
    { Msg("system", "string", "Be terse", <<>>, <<>>, ""),
      Msg("user", "string", "hi", <<>>, <<>>, ""),
      Msg("user", "string", "", <<>>, <<>>, ""),
      Msg("user", "array", "", <<Part("text", "see", "", ""),
                                 Part("image_url", "data:image/png;base64,AAAA", "", "")>>, <<>>, ""),
      Msg("assistant", "string", "ok", <<>>, <<>>, ""),
      Msg("assistant", "none", "", <<>>, <<ToolCall("function", "a", "lookup", "{\"q\":1}")>>, ""),
      Msg("assistant", "string", "ok", <<>>,
          <<ToolCall("function", "b", "calc", "oops"), ToolCall("function", "a", "lookup", "")>>, ""),
      Msg("assistant", "none", "", <<>>,
          <<ToolCall("custom", "c", "shell", ""), ToolCall("function", "lookup-17-0", "", "{}")>>, ""),
      Msg("tool", "string", "res_a", <<>>, <<>>, "a"),
      Msg("tool", "string", "{\"q\":1}", <<>>, <<>>, "b"),
      Msg("tool", "string", "5", <<>>, <<>>, "a"),
      Msg("tool", "string", "null", <<>>, <<>>, "lookup-17-0") }

GeminiTools ==
    { ToolIn("function", TRUE, ToolData("lookup", "find", "{q,$schema}", ""), NoToolData),
      ToolIn("function", TRUE, ToolData("", "anonymous", "", ""), NoToolData),
      ToolIn("function", TRUE, ToolData("calc", "", "{q}", ""), NoToolData),
      ToolIn("function", FALSE, NoToolData, ToolData("bare", "", "", "")) }

Efforts == {"", "low", "medium", "high", "extreme"}
Thinkings ==
    { NoThinking, Thinking("enabled", 2048), Thinking("enabled", -1), Thinking("enabled", 0),
      Thinking("disabled", 2048) }
GeminiModels == {"gemini-2.5-pro", "claude-sonnet-4"}

NoGqBody == GqBody("", <<>>, NoTools, NoGenParams, "", NoThinking)
NoGqResult ==
    [model |-> "", contents |-> <<>>,
     generationConfig |-> [temperature |-> -1, topP |-> -1, topK |-> -1, maxOutputTokens |-> -1,
                           thinkingConfig |-> NoThinkingConfig],
     safetySettings |-> "", systemInstruction |-> NoSystemInstruction,
     tools |-> [has |-> FALSE, functionDeclarations |-> <<>>]]

IdleGq == gqBody = NoGqBody /\ gqResult = NoGqResult /\ gqDone = TRUE

\* a request: a conversation with no tools and no thinking, or one user
\* message with tools, generation parameters, an effort and a thinking object
InitGq ==
    /\ \/ \E messages \in SeqsUpTo(GeminiMessages, MaxGeminiMessages) :
            gqBody = GqBody("gemini-2.5-pro", messages, NoTools, NoGenParams, "", NoThinking)
       \/ \E model \in GeminiModels, effort \in Efforts, thinking \in Thinkings,
             gen \in {NoGenParams, GenParams(0, 1, 40, 256)},
             tools \in {NoTools} \cup {[has |-> TRUE, list |-> l] : l \in SeqsUpTo(GeminiTools, 2)} :
            gqBody = GqBody(model, <<Msg("user", "string", "hi", <<>>, <<>>, "")>>, tools, gen,
                            effort, thinking)
    /\ gqResult = NoGqResult
    /\ gqDone = FALSE

\* one call of openaiToGeminiCLI(model, body, stream)
Gq_Translate ==
    /\ ~gqDone
    /\ gqResult' = openaiToGeminiCLI(gqBody)
    /\ gqDone' = TRUE
    /\ UNCHANGED <<gqBody, ocVars, coVars, scn, rqVars, xchVars, gmVars>>

(***************************************************************************)
(* Specifications: one per translator, the others idle                     *)
(***************************************************************************)
InitO2C == InitOC /\ InitCO /\ scn = ScnIdle /\ IdleRq /\ IdleXch /\ InitGm /\ IdleGq
SpecO2C == InitO2C /\ [][NextO2C]_vars

InitC2O == InitOC /\ InitCO /\ scn = ScnIdle /\ IdleRq /\ IdleXch /\ InitGm /\ IdleGq
SpecC2O == InitC2O /\ [][NextC2O]_vars

InitC2OTools == InitOC /\ InitCO /\ scn = ScnIdle /\ IdleRq /\ IdleXch /\ InitGm /\ IdleGq
SpecC2OTools == InitC2OTools /\ [][NextC2OTools]_vars

InitScenario == InitOC /\ InitCO /\ InitScn /\ IdleRq /\ IdleXch /\ InitGm /\ IdleGq
NextScenario == Scn_Event
SpecScenario == InitScenario /\ [][NextScenario]_vars

InitRequest == InitOC /\ InitCO /\ scn = ScnIdle /\ InitRq /\ IdleXch /\ InitGm /\ IdleGq
NextRequest == Rq_Translate \/ Rq_TranslateAgain
SpecRequest == InitRequest /\ [][NextRequest]_vars

InitG2O == InitOC /\ InitCO /\ scn = ScnIdle /\ IdleRq /\ IdleXch /\ InitGm /\ IdleGq
SpecG2O == InitG2O /\ [][NextG2O]_vars

InitGeminiRequest == InitOC /\ InitCO /\ scn = ScnIdle /\ IdleRq /\ IdleXch /\ InitGm /\ InitGq
NextGeminiRequest == Gq_Translate
SpecGeminiRequest == InitGeminiRequest /\ [][NextGeminiRequest]_vars

InitExchanges == InitOC /\ InitCO /\ scn = ScnIdle /\ IdleRq /\ InitXch /\ InitGm /\ IdleGq
SpecExchanges == InitExchanges /\ [][NextExchanges]_vars

(***************************************************************************)
(* The emitted Claude trace                                                *)
(***************************************************************************)
ocStartPos == {i \in 1..Len(ocOut) : ocOut[i].type = "content_block_start"}
ocToolStartPos == {i \in ocStartPos : ocOut[i].kind = "tool_use"}
ocStopPos(index) ==
    {j \in 1..Len(ocOut) : ocOut[j].type = "content_block_stop" /\ ocOut[j].index = index}
\* the blocks opened for tool-call index k
ocBlocksOf(k) == {ocHist.owner[n].block : n \in {m \in 1..Len(ocHist.owner) : ocHist.owner[m].idx = k}}
\* the exchange got exactly one finish_reason chunk, and it was the last chunk
ocFinishedOnce ==
    /\ Len(ocOut) > 0
    /\ ocOut[Len(ocOut)].type = "message_stop"
    /\ ocHist.finishes = 1

\* partial_json of the input_json_delta events of trace s against blocks bs, concatenated
RECURSIVE ocEmittedArgs(_, _)
ocEmittedArgs(s, bs) ==
    IF s = <<>> THEN <<>>
    ELSE (IF Head(s).type = "content_block_delta" /\ Head(s).kind = "input_json_delta"
             /\ Head(s).index \in bs
          THEN Str(Head(s).data) ELSE <<>>) \o ocEmittedArgs(Tail(s), bs)

\* the text and thinking blocks started and not yet stopped after the first k events
ocOpenTextThinking(k) ==
    {i \in ocStartPos : /\ i <= k
                        /\ ocOut[i].kind \in {"text", "thinking"}
                        /\ ~\E j \in ocStopPos(ocOut[i].index) : i < j /\ j <= k}

(***************************************************************************)
(* Claims on openaiToClaudeResponse                                        *)
(***************************************************************************)

\* C1: once the chunk carrying finish_reason has been processed (the one
\* finish chunk of the exchange, as its last chunk), every block opened by a
\* content_block_start has exactly one content_block_stop with its index,
\* after its start and before message_stop.
C1_EveryBlockClosedOnce ==
    ocFinishedOnce =>
        \A i \in ocStartPos :
            /\ Cardinality(ocStopPos(ocOut[i].index)) = 1
            /\ \A j \in ocStopPos(ocOut[i].index) : i < j /\ j < Len(ocOut)

\* C3: when every tool-call delta without an id follows a delta that opened
\* its index, the number of tool_use content_block_start events equals the
\* number of distinct tool-call indices seen, and after the finish chunk each
\* of those indices has exactly one content_block_stop among its blocks.
C3_ToolStartsMatchIndices ==
    ~ocHist.orphan =>
        /\ Cardinality(ocToolStartPos) = Cardinality(ocHist.seen)
        /\ ocFinishedOnce =>
             \A k \in ocHist.seen :
                Cardinality({j \in 1..Len(ocOut) :
                    ocOut[j].type = "content_block_stop" /\ ocOut[j].index \in ocBlocksOf(k)}) = 1

\* C6 as stated: for each tool-call index, the partial_json fragments emitted
\* for its blocks concatenate to all the arguments fragments received for it.
C6_AllFragmentsEmitted ==
    \A k \in {0, 1} : ocEmittedArgs(ocOut, ocBlocksOf(k)) = ocHist.recv[k]

\* C6 amended: for each tool-call index, the partial_json fragments emitted
\* for its blocks concatenate to the arguments fragments received for it from
\* the first delta that carried an id for that index onward (fragments that
\* arrive before any id has opened the index are dropped).
C6_FragmentsSinceOpenEmitted ==
    \A k \in {0, 1} : ocEmittedArgs(ocOut, ocBlocksOf(k)) = ocHist.recvOpen[k]

\* C6 witness: two fragments were received for an opened index, in two chunks,
\* while another index was opened too.
C6_Witness ==
    /\ ocHist.opened = {0, 1}
    /\ \E k \in {0, 1} : ocHist.recvOpen[k] = <<"x", "y">>
    /\ ocN >= 2

\* C7: the indices of the content_block_start events are strictly increasing
\* in emission order (so no index is given to two blocks).
C7_BlockIndicesIncrease ==
    \A i, j \in ocStartPos : i < j => ocOut[i].index < ocOut[j].index

\* C7 witness: a thinking, a text and a tool_use block were started.
C7_Witness ==
    /\ \E i \in ocStartPos : ocOut[i].kind = "thinking"
    /\ \E i \in ocStartPos : ocOut[i].kind = "text"
    /\ \E i \in ocStartPos : ocOut[i].kind = "tool_use"
    /\ ocN >= 2

\* C8: after every prefix of the emitted trace at most one text or thinking
\* block is started and not yet stopped.
C8_OneTextOrThinkingOpen ==
    \A k \in 0..Len(ocOut) : Cardinality(ocOpenTextThinking(k)) <= 1

\* C8 witness: a text block was started after a thinking block and a thinking
\* block after a text block.
C8_Witness ==
    \E i, j, k \in ocStartPos :
        /\ i < j /\ j < k
        /\ ocOut[i].kind = "thinking" /\ ocOut[j].kind = "text" /\ ocOut[k].kind = "thinking"

ocPos(type) == {i \in 1..Len(ocOut) : ocOut[i].type = type}

\* C15: a message_stop is the last event of the trace (so there is at most
\* one, and nothing is emitted after it); it directly follows a
\* message_delta that carries the remapped finish_reason of the chunk; and
\* before that message_delta every text and thinking block started, and the
\* block of every entry of state.toolCalls, has exactly one
\* content_block_stop.
C15_FinishSequence ==
    \A p \in ocPos("message_stop") :
        /\ p = Len(ocOut)
        /\ p > 1
        /\ ocOut[p - 1].type = "message_delta"
        /\ ocOut[p - 1].kind = convertFinishReason(ocHist.lastFinish)
        /\ \A i \in ocStartPos :
              (ocOut[i].kind \in {"text", "thinking"}
               \/ \E n \in 1..Len(ocState.toolCalls) :
                     ocState.toolCalls[n].blockIndex = ocOut[i].index) =>
                 /\ Cardinality(ocStopPos(ocOut[i].index)) = 1
                 /\ \A j \in ocStopPos(ocOut[i].index) : i < j /\ j < p - 1

\* C20: nothing is emitted before the first chunk that has a choice; once a
\* chunk with a choice has been processed the trace holds exactly one
\* message_start, as its first event.
C20_MessageStartOnceFirst ==
    /\ ~ocHist.hadChoice => ocOut = <<>>
    /\ ocHist.hadChoice =>
          /\ Len(ocOut) >= 1
          /\ ocPos("message_start") = {1}

\* C20 witness: after a chunk without a choice, the first chunk with a choice
\* carried content, a tool call and a finish_reason.
C20_Witness ==
    /\ ocN = 2
    /\ ocHist.finishes = 1 /\ ocHist.seen # {}
    /\ Len(ocOut) >= 8
    /\ ocOut[1].type = "message_start"
    /\ ocOut[2].type = "content_block_start"
    /\ ocOut[Len(ocOut)].type = "message_stop"
    /\ Cardinality(ocPos("message_delta")) = 1
    /\ \E i \in ocStartPos : ocOut[i].kind = "text"
    /\ \E i \in ocStartPos : ocOut[i].kind = "tool_use"
    /\ \E i \in ocStartPos : ocOut[i].kind = "thinking"

(***************************************************************************)
(* Claims on claudeToOpenAIResponse                                        *)
(***************************************************************************)
IsPrefix(a, b) == Len(a) <= Len(b) /\ SubSeq(b, 1, Len(a)) = a

\* C2: over one exchange (opened by message_start) at most one chunk with a non-null finish_reason is
\* emitted: once finishReasonSent is true, no later message_delta or
\* message_stop emits a terminal chunk.
C2_AtMostOneTerminal ==
    coHist.first = "message_start" => coHist.terminals <= 1

\* C9: in an exchange opened by message_start, every entry state.toolCalls
\* held before an event is still there after it, for the same provider index, with the same id, name and output index
\* and an argument buffer that extends the old one.
C9_ToolCallsAppendOnly ==
    coHist.first = "message_start" =>
    \A n \in 1..Len(coHist.prevToolCalls) :
        LET old == coHist.prevToolCalls[n]
        IN /\ MapHas(coState.toolCalls, old.key)
           /\ MapGet(coState.toolCalls, old.key).id = old.id
           /\ MapGet(coState.toolCalls, old.key).name = old.name
           /\ MapGet(coState.toolCalls, old.key).index = old.index
           /\ IsPrefix(old.arguments, MapGet(coState.toolCalls, old.key).arguments)

\* C10: the two finish-reason tables invert each other on stop/length/
\* tool_calls and end_turn/max_tokens/tool_use, every other reason maps to
\* stop (Claude to OpenAI) and end_turn (OpenAI to Claude), and the finish
\* reason the exchange remembers is the image of the stop_reason it received.
C10_FinishReasonsConsistent ==
    /\ \A r \in {"stop", "length", "tool_calls"} : convertStopReason(convertFinishReason(r)) = r
    /\ \A r \in {"end_turn", "max_tokens", "tool_use"} : convertFinishReason(convertStopReason(r)) = r
    /\ \A r \in {"refusal", "pause_turn", "content_filter", "function_call", ""} :
          convertStopReason(r) = "stop" /\ convertFinishReason(r) = "end_turn"
    /\ coHist.lastStopReason \in {"end_turn", "max_tokens", "tool_use"} =>
          convertFinishReason(coState.finishReason) = coHist.lastStopReason
    /\ coHist.lastStopReason \in {"refusal"} => coState.finishReason = "stop"

\* C10 witness: a message_delta with stop_reason max_tokens was translated.
C10_Witness ==
    /\ coHist.lastStopReason = "max_tokens"
    /\ coState.finishReason = "length"
    /\ coHist.terminals >= 1

coPos(S) == {i \in 1..Len(coOut) : coOut[i].content \in S}
coTerminalPos == {i \in 1..Len(coOut) : coOut[i].finish_reason # ""}
\* the marker emitted before position i, if any
coMarkBefore(i) ==
    LET before == {j \in coPos({"<think>", "</think>"}) : j < i}
    IN IF before = {} THEN "" ELSE coOut[CHOOSE j \in before : \A k \in before : k <= j].content

\* C16 as stated: in an exchange opened by message_start, every "<think>"
\* is followed by exactly one "</think>", which comes before the next
\* "<think>" and before the terminal chunk and is emitted on the
\* content_block_stop of the thinking block that "<think>" opened; and no
\* "</think>" comes without an unmatched "<think>" before it.
C16_ThinkMarkersPaired ==
    coHist.first = "message_start" =>
        /\ \A i \in coPos({"<think>"}) : coMarkBefore(i) # "<think>"
        /\ \A i \in coPos({"</think>"}) : coMarkBefore(i) = "<think>"
        /\ \A t \in coTerminalPos : coMarkBefore(t) # "<think>"
        /\ \A k \in 1..Len(coHist.marks) :
              coHist.marks[k].mark = "</think>" =>
                 k > 1 /\ coHist.marks[k - 1].index = coHist.marks[k].index

\* C16 amended: a content_block_stop for the thinking block of the last
\* "<think>", when no "</think>" has come since that "<think>", emits
\* exactly one "</think>" and nothing else; every "</think>" directly
\* follows, among the markers, a "<think>", and is emitted on a
\* content_block_stop with the block index of the thinking block that
\* "<think>" opened; the thinking block is marked open exactly when the
\* last marker is a "<think>".  (A "<think>" followed by another "<think>"
\* or by the terminal chunk before its content_block_stop is never closed.)
C16_CloseFollowsItsOpen ==
    /\ coHist.stopsUnclosed = 0
    /\ \A k \in 1..Len(coHist.marks) :
          coHist.marks[k].mark = "</think>" =>
             /\ k > 1
             /\ coHist.marks[k - 1].mark = "<think>"
             /\ coHist.marks[k - 1].index = coHist.marks[k].index
    /\ \A i \in coPos({"</think>"}) : coMarkBefore(i) = "<think>"
    /\ coState.inThinkingBlock <=>
          (Len(coHist.marks) > 0 /\ coHist.marks[Len(coHist.marks)].mark = "<think>")

\* C16 witness: a thinking block on index 1 was opened, a content_block_stop
\* for index 0 left it open, its own content_block_stop closed it, and a
\* terminal chunk followed.
C16_Witness ==
    /\ coHist.marks = <<[mark |-> "<think>", index |-> 1], [mark |-> "</think>", index |-> 1]>>
    /\ coN = MaxEvents
    /\ coHist.terminals = 1
    /\ coOut[Len(coOut)].finish_reason # ""

\* the arguments of the tool-call deltas of out with output index n, concatenated
RECURSIVE coEmittedArgs(_, _)
coEmittedArgs(out, n) ==
    IF out = <<>> THEN <<>>
    ELSE (IF Head(out).kind = "tool_calls" /\ Head(out).tool_call.index = n
          THEN Str(Head(out).tool_call.arguments) ELSE <<>>) \o coEmittedArgs(Tail(out), n)

\* the last call was an input_json_delta for a block that state.toolCalls knew
coKnownDelta ==
    /\ coHist.last.type = "content_block_delta"
    /\ coHist.last.kind = "input_json_delta"
    /\ MapHas(coHist.prev.toolCalls, coHist.last.index)

\* that call appended its fragment to the buffer of the block's tool call and
\* emitted one delta with the fragment alone, the tool call's id and its
\* output index
coDeltaForwarded ==
    LET old == MapGet(coHist.prev.toolCalls, coHist.last.index)
    IN /\ Len(coHist.lastResults) = 1
       /\ coHist.lastResults[1].kind = "tool_calls"
       /\ coHist.lastResults[1].tool_call =
             [index |-> old.index, id |-> old.id, name |-> "", arguments |-> coHist.last.data]
       /\ MapHas(coState.toolCalls, coHist.last.index)
       /\ MapGet(coState.toolCalls, coHist.last.index).arguments = old.arguments \o <<coHist.last.data>>

\* C17 as stated: in an exchange opened by message_start, every
\* input_json_delta for a known tool block appends its fragment to that
\* tool call's buffer and emits exactly one delta with that fragment alone,
\* the tool call's id and its output index; and the buffer of every tool
\* call equals the concatenation, in order, of the fragments emitted for
\* its output index.
C17_BufferIsEmittedForIndex ==
    coHist.first = "message_start" =>
        /\ coKnownDelta => coDeltaForwarded
        /\ \A n \in 1..Len(coState.toolCalls) :
              coState.toolCalls[n].arguments = coEmittedArgs(coHist.sent, coState.toolCalls[n].index)

\* C17 amended: every input_json_delta with a non-empty fragment for a known
\* tool block appends the fragment to that tool call's buffer and emits
\* exactly one delta with that fragment alone, the tool call's id and its
\* output index (an empty fragment changes and emits nothing); and the
\* buffer of every tool call equals the concatenation, in order, of the
\* fragments emitted for its block since the content_block_start that
\* recorded it.
C17_BufferIsEmittedForBlock ==
    /\ (coKnownDelta /\ coHist.last.data # "") => coDeltaForwarded
    /\ (coKnownDelta /\ coHist.last.data = "") =>
          coHist.lastResults = <<>> /\ coState.toolCalls = coHist.prev.toolCalls
    /\ \A n \in 1..Len(coState.toolCalls) :
          coState.toolCalls[n].arguments = coHist.emitted[coState.toolCalls[n].key]

\* C17 witness: two tool calls are recorded, one of them has received two
\* fragments, the last event being the second of them.
C17_Witness ==
    /\ coHist.first = "message_start"
    /\ Len(coState.toolCalls) = 2
    /\ coKnownDelta /\ coHist.last.data = "x"
    /\ MapGet(coState.toolCalls, 0).arguments = <<"x", "x">>

\* the chunks that announce a tool call (they carry its name)
coAnnounced == SelectSeq(coOut, LAMBDA r : r.kind = "tool_calls" /\ r.tool_call.name # "")

\* C18: in an exchange that starts with its one message_start, the k-th
\* tool call announced has output index k - 1, whatever the block indices
\* of the provider and whatever text or thinking blocks come in between,
\* and no two recorded tool calls have the same output index.
C18_OutputIndicesSequential ==
    (coHist.first = "message_start" /\ coHist.starts = 1) =>
        /\ \A k \in 1..Len(coAnnounced) : coAnnounced[k].tool_call.index = k - 1
        /\ \A m, n \in 1..Len(coState.toolCalls) :
              m # n => coState.toolCalls[m].index # coState.toolCalls[n].index

\* C18 witness: after a text block on index 0, a tool call on block 1 and
\* then one on block 0 were announced.
C18_Witness ==
    /\ coHist.first = "message_start" /\ coHist.starts = 1
    /\ coState.textBlockStarted
    /\ Len(coAnnounced) = 2
    /\ coAnnounced[1].tool_call.id = "t2" /\ coAnnounced[2].tool_call.id = "t1"
    /\ Len(coState.toolCalls) = 2
    /\ coState.toolCalls[1].key = 1 /\ coState.toolCalls[2].key = 0

\* C19: a message_stop emits nothing when a chunk with a finish_reason was
\* emitted before it, and otherwise exactly one chunk: empty delta,
\* finish_reason the remembered one if there is one, else tool_calls when a
\* tool call is recorded, else stop, and the usage object (prompt,
\* completion, total) when state.usage is set, none when it is not.
C19_MessageStopTerminal ==
    coHist.last.type = "message_stop" =>
        LET before == coHist.terminals - Len(coHist.lastResults)
            prev == coHist.prev
            tokens(n) == IF n = -1 THEN 0 ELSE n
        IN /\ before > 0 => coHist.lastResults = <<>>
           /\ before = 0 =>
                /\ Len(coHist.lastResults) = 1
                /\ coHist.lastResults[1] =
                      [id |-> prev.messageId, kind |-> "final", content |-> "", tool_call |-> NoTc,
                       finish_reason |-> IF prev.finishReason # "" THEN prev.finishReason
                                         ELSE IF prev.toolCalls # <<>> THEN "tool_calls" ELSE "stop",
                       usage |-> IF prev.usage.set
                                 THEN [set |-> TRUE,
                                       prompt_tokens |-> tokens(prev.usage.input_tokens),
                                       completion_tokens |-> tokens(prev.usage.output_tokens),
                                       total_tokens |-> tokens(prev.usage.input_tokens)
                                                          + tokens(prev.usage.output_tokens)]
                                 ELSE NoUsageOut]

\* C19 witness: with a tool call recorded and usage stored, a message_stop
\* that no message_delta preceded emitted the terminal chunk.
C19_Witness ==
    /\ coHist.last.type = "message_stop"
    /\ coHist.first = "message_start"
    /\ Len(coHist.lastResults) = 1
    /\ coHist.lastResults[1].finish_reason = "tool_calls"
    /\ coHist.lastResults[1].usage.set
    /\ coHist.lastResults[1].usage.completion_tokens = 0

\* C5: replaying the stream yields, in order and nothing else, the role
\* chunk, one tool-call delta with the tool's id, name, empty arguments and
\* index 0, one delta per argument fragment (same id and index, the
\* fragment alone), and one terminal chunk with finish_reason tool_calls;
\* content_block_stop and message_stop add nothing.  Each chunk is taken as
\* it reads when its call returns it; read later, the chunks are the same
\* but for the arguments of the tool-call delta that announced the tool
\* call, which show the fragments received since.
C5_ScenarioOutput ==
    LET tc(a) == [index |-> 0, id |-> scn.id, name |-> "", arguments |-> a]
        expected ==
          << OpenAIOut(scn.msg, "role", "", NoTc, "", NoUsageOut),
             OpenAIOut(scn.msg, "tool_calls", "",
                       [index |-> 0, id |-> scn.id, name |-> scn.name, arguments |-> ""], "", NoUsageOut),
             OpenAIOut(scn.msg, "tool_calls", "", tc(scn.f1), "", NoUsageOut),
             OpenAIOut(scn.msg, "tool_calls", "", tc(scn.f2), "", NoUsageOut),
             OpenAIOut(scn.msg, "final", "", NoTc, "tool_calls", NoUsageOut) >>
        \* chunks emitted once each event of the stream has been processed
        emitted == <<1, 2, 3, 4, 4, 5, 5>>
        received == IF scn.step >= 4 THEN scn.f1 \o scn.f2
                    ELSE IF scn.step = 3 THEN scn.f1 ELSE ""
    IN scn.step >= 1 =>
        /\ coHist.sent = SubSeq(expected, 1, emitted[scn.step])
        /\ Len(coOut) = Len(coHist.sent)
        /\ \A i \in 1..Len(coOut) :
              coOut[i] = IF i = 2 THEN [coHist.sent[i] EXCEPT !.tool_call.arguments = received]
                         ELSE coHist.sent[i]
        /\ scn.step >= 4 =>
             /\ Str(coHist.sent[3].tool_call.arguments) \o Str(coHist.sent[4].tool_call.arguments)
                   = Str(scn.f1) \o Str(scn.f2)
             /\ MapGet(coState.toolCalls, scn.index).arguments = Str(scn.f1) \o Str(scn.f2)

\* C5 witness: the spec's stream (id t1, name lookup, two different
\* fragments) has been replayed to its end.
C5_Witness ==
    /\ scn.step = ScnLength
    /\ scn.id = "t1" /\ scn.name = "lookup" /\ scn.f1 = "x" /\ scn.f2 = "y"
    /\ Len(coOut) = 5
    /\ coHist.sent[2].tool_call.arguments = ""
    /\ coOut[2].tool_call.arguments = "xy"

(***************************************************************************)
(* Claims on openaiToClaude                                                *)
(***************************************************************************)
rqToolUseIds(msg) ==
    {b.id : b \in {getContentBlocksFromMessage(msg)[i] :
                     i \in {j \in 1..Len(getContentBlocksFromMessage(msg)) :
                              getContentBlocksFromMessage(msg)[j].type = "tool_use"}}}

\* messages p+1..p+n of the body are tool messages answering, one each,
\* distinct tool calls of the assistant message at p
rqToolRun(p, n) ==
    /\ rqBody[p].role = "assistant"
    /\ p + n <= Len(rqBody)
    /\ \A k \in 1..n : /\ rqBody[p + k].role = "tool"
                       /\ rqBody[p + k].tool_call_id \in rqToolUseIds(rqBody[p])
    /\ \A k, l \in 1..n : k # l => rqBody[p + k].tool_call_id # rqBody[p + l].tool_call_id

\* the standalone user message for tool message msg
rqResultMessage(msg) ==
    [role |-> "user",
     content |-> <<Block("tool_result", "", msg.tool_call_id, "", NoInput, msg.text)>>]

rqHoldsToolUse(out, id) ==
    \E i \in 1..Len(out.content) : out.content[i].type = "tool_use" /\ out.content[i].id = id

\* C4 as stated: each of the N tool messages that follow their assistant
\* turn yields a standalone user message holding exactly its tool_result,
\* placed immediately after the output message that holds the matching
\* tool_use block.
C4_EachResultRightAfterToolUse ==
    rqDone =>
        \A p \in 1..Len(rqBody) : \A n \in 1..(Len(rqBody) - p) :
            rqToolRun(p, n) =>
                \A k \in 1..n :
                    \E q \in 1..(Len(rqResult) - 1) :
                        /\ rqHoldsToolUse(rqResult[q], rqBody[p + k].tool_call_id)
                        /\ rqResult[q + 1] = rqResultMessage(rqBody[p + k])

\* C4 amended: the N tool messages yield N standalone user messages, each
\* holding exactly its tool_result, that follow the assistant output message
\* holding the matching tool_use blocks as one run in the order of the tool
\* messages: the k-th of them is the k-th message after it.
C4_ResultsRunAfterToolUse ==
    rqDone =>
        \A p \in 1..Len(rqBody) : \A n \in 1..(Len(rqBody) - p) :
            rqToolRun(p, n) =>
                \E q \in 1..Len(rqResult) :
                    /\ rqResult[q].role = "assistant"
                    /\ q + n <= Len(rqResult)
                    /\ \A k \in 1..n :
                        /\ rqHoldsToolUse(rqResult[q], rqBody[p + k].tool_call_id)
                        /\ rqResult[q + k] = rqResultMessage(rqBody[p + k])

\* C4 witness: a request whose assistant turn made two tool calls, followed
\* by their two tool messages, has been translated.
C4_Witness ==
    /\ rqDone
    /\ \E p \in 1..Len(rqBody) : p + 2 <= Len(rqBody) /\ rqToolRun(p, 2)

\* the texts a system message contributes, one per line
RECURSIVE rqSystemLines(_)
rqSystemLines(msgs) ==
    IF msgs = <<>> THEN <<>>
    ELSE (IF Head(msgs).role # "system" THEN <<>>
          ELSE IF Head(msgs).ctype = "string" THEN <<Head(msgs).text>>
          ELSE [i \in 1..Len(rqFilter(Head(msgs).parts, {"text"})) |->
                    rqFilter(Head(msgs).parts, {"text"})[i].text])
         \o rqSystemLines(Tail(msgs))

\* C11: once a request is translated, result.system is the preamble block
\* alone when the request has no system message, and otherwise the preamble
\* block followed by one text block, marked ephemeral with ttl 1h, whose text
\* is the system messages' texts in order with a newline between
\* neighbours; result.messages is what the request without its system
\* messages translates to and holds none of their text.  For the request
\* [system "Be terse", user "hi"] that is system = [preamble, "Be terse"
\* (ephemeral, 1h)] and messages = [user [text "hi"]].
C11_SystemExtracted ==
    rqDone =>
        LET lines == rqSystemLines(rqBody)
            preamble == [type |-> "text", text |-> <<CLAUDE_SYSTEM_PROMPT>>, cache_control |-> NoCache]
            others == SelectSeq(rqBody, LAMBDA m : m.role # "system")
        IN /\ rqRest.system[1] = preamble
           /\ lines = <<>> => rqRest.system = <<preamble>>
           /\ lines # <<>> =>
                /\ Len(rqRest.system) = 2
                /\ rqRest.system[2].type = "text"
                /\ rqRest.system[2].cache_control = [type |-> "ephemeral", ttl |-> "1h"]
                /\ Len(rqRest.system[2].text) = 2 * Len(lines) - 1
                /\ \A k \in 1..Len(rqRest.system[2].text) :
                      rqRest.system[2].text[k] = IF k % 2 = 1 THEN lines[(k + 1) \div 2] ELSE "\n"
           /\ rqResult = openaiToClaude(others)
           /\ \A i \in 1..Len(rqResult) : \A j \in 1..Len(rqResult[i].content) :
                 rqResult[i].content[j].text \notin {lines[k] : k \in 1..Len(lines)}
           /\ rqBody = <<Msg("system", "string", "Be terse", <<>>, <<>>, ""),
                         Msg("user", "string", "hi", <<>>, <<>>, "")>> =>
                /\ rqRest.system[2].text = <<"Be terse">>
                /\ rqResult = <<[role |-> "user",
                                 content |-> <<[type |-> "text", text |-> "hi", id |-> "", name |-> "",
                                                input |-> NoInput, content |-> "",
                                                cache_control |-> FALSE]>>]>>

\* C11 witness: a request with two system messages, one of them with an
\* array content of two text parts, and a user message has been translated.
C11_Witness ==
    /\ rqDone
    /\ Len(rqSystemLines(rqBody)) = 3
    /\ \E i \in 1..Len(rqBody) : rqBody[i].role = "user"
    /\ Len(rqRest.system) = 2
    /\ Len(rqResult) = 1

\* the request of one assistant message whose content array is a text part
\* followed by a tool_use part
rqTextThenToolUse ==
    /\ Len(rqBody) = 1
    /\ rqBody[1].role = "assistant" /\ rqBody[1].ctype = "array"
    /\ rqBody[1].tool_calls = <<>>
    /\ Len(rqBody[1].parts) = 2
    /\ rqBody[1].parts[1].type = "text" /\ rqBody[1].parts[1].text # ""
    /\ rqBody[1].parts[2].type = "tool_use"

\* the input blocks of that message, as output blocks, the last one marked
\* for caching or not
rqInputBlocks(marked) ==
    << [type |-> "text", text |-> rqBody[1].parts[1].text, id |-> "", name |-> "",
        input |-> NoInput, content |-> "", cache_control |-> FALSE],
       [type |-> "tool_use", text |-> "", id |-> rqBody[1].parts[2].id,
        name |-> rqBody[1].parts[2].name,
        input |-> [parsed |-> TRUE, value |-> rqBody[1].parts[2].text],
        content |-> "", cache_control |-> marked] >>

\* C12 as stated: translating a single assistant message whose content is
\* one text block followed by one tool_use block yields exactly one output
\* message, with role assistant, whose blocks equal the input blocks in order.
C12_BlocksEqualInput ==
    (rqDone /\ rqTextThenToolUse) =>
        rqResult = <<[role |-> "assistant", content |-> rqInputBlocks(FALSE)]>>

\* C12 amended: translating such a message yields exactly one output
\* message, with role assistant, whose blocks are the input blocks in order
\* except that the last one, the tool_use block, additionally carries
\* cache_control {type: ephemeral}.
C12_BlocksEqualInputButCacheMark ==
    (rqDone /\ rqTextThenToolUse) =>
        rqResult = <<[role |-> "assistant", content |-> rqInputBlocks(TRUE)]>>

\* C12 witness: such a message has been translated.
C12_Witness ==
    /\ rqDone /\ rqTextThenToolUse
    /\ Len(rqResult) = 1 /\ Len(rqResult[1].content) = 2

\* C14: once a request with a tool choice is translated, result.tool_choice
\* is {type: auto} for "auto" and "none", {type: any} for "required",
\* {type: tool, name} for every object with a function object naming the
\* tool, whether or not it also has a type, and the object itself for an
\* object with a type and no function object.
C14_ToolChoiceMapped ==
    rqDone =>
        LET c == rqOpts.tool_choice
            r == rqRest.tool_choice
        IN /\ (c.kind = "string" /\ c.str \in {"auto", "none"}) =>
                r = [kind |-> "object", str |-> "", type |-> "auto", hasFunction |-> FALSE,
                     function |-> "", name |-> ""]
           /\ (c.kind = "string" /\ c.str = "required") =>
                r = [kind |-> "object", str |-> "", type |-> "any", hasFunction |-> FALSE,
                     function |-> "", name |-> ""]
           /\ (c.kind = "object" /\ c.hasFunction) =>
                r = [kind |-> "object", str |-> "", type |-> "tool", hasFunction |-> FALSE,
                     function |-> "", name |-> c.function]
           /\ (c.kind = "object" /\ ~c.hasFunction /\ c.type # "") => r = c

(***************************************************************************)
(* Claims on exchanges served side by side                                 *)
(***************************************************************************)
\* the state and the emitted events after the translator of kind has
\* processed the events of received, alone, from state st, the first call
\* at time now and each call a second after the one before it
RECURSIVE xchAlone(_, _, _, _, _, _)
xchAlone(kind, st, out, shared, received, now) ==
    IF received = <<>> THEN [state |-> st, out |-> out]
    ELSE LET c == ExchangeCall(kind, Head(received), st, now)
             next == xchSharedNext(kind, shared, Head(received), Len(out) + Len(c.results))
         IN xchAlone(kind, c.state, xchRead(kind, out, next, c), next, Tail(received), now + 1000)

\* the values Date.now() takes during the exchanges
xchTimes == {1000 * n : n \in 0..(2 * MaxExchangeEvents)}

\* the ids the translators make from the clock
xchGeneratedIds ==
    {xchMessageId(t) : t \in xchTimes}
    \cup {xchToolCallId("lookup", t, i) : t \in xchTimes, i \in 0..MaxExchangeEvents}

\* an id, ids made from the clock aside
xchIdAside(id) == IF id \in xchGeneratedIds THEN "generated" ELSE id

\* the events emitted for an exchange and its state, ids made from the
\* clock aside
xchAside(kind, st, out) ==
    IF kind = "openai"
    THEN [state |-> st,
          out |-> [i \in 1..Len(out) |->
                     IF out[i].type = "message_start"
                     THEN [out[i] EXCEPT !.data = xchIdAside(@)] ELSE out[i]]]
    ELSE [state |-> [st EXCEPT !.messageId = xchIdAside(@),
                               !.toolCalls = [n \in 1..Len(@) |-> [@[n] EXCEPT !.id = xchIdAside(@)]]],
          out |-> [i \in 1..Len(out) |->
                     [out[i] EXCEPT !.id = xchIdAside(@), !.tool_call.id = xchIdAside(@)]]]

gmFinals == {i \in 1..Len(gmOut) : gmOut[i].finish_reason # ""}
gmToolDeltas == SelectSeq(gmOut, LAMBDA r : r.kind = "tool_calls")

\* C21: a candidate's finishReason is lower-cased and emitted as exactly one
\* finish chunk per exchange (none before a finishReason has arrived); its
\* value is tool_calls when the lower-cased reason is stop and a tool-call
\* delta has been emitted in the exchange, this event included, and the
\* lower-cased reason otherwise.
C21_OneFinishChunk ==
    /\ Cardinality(gmFinals) = IF gmHist.finishes > 0 THEN 1 ELSE 0
    /\ gmHist.last.hasCandidate /\ gmHist.last.finishReason # "" =>
          LET lower == CASE gmHist.last.finishReason \in {"STOP", "stop"} -> "stop"
                         [] gmHist.last.finishReason = "MAX_TOKENS" -> "max_tokens"
          IN /\ gmOut[Len(gmOut)].kind = "final"
             /\ gmOut[Len(gmOut)].finish_reason =
                  IF lower = "stop" /\ Len(gmToolDeltas) > 0 THEN "tool_calls" ELSE lower
             /\ gmState.finishReason = gmOut[Len(gmOut)].finish_reason

\* C22: the role-announcement chunk is emitted exactly once, as the first
\* chunk of the exchange, and every functionCall part, with or without a
\* thought signature, yields one tool-call delta whose index is the next
\* value of a counter that starts at 0: the deltas carry 0, 1, 2, ... in
\* the order of emission.
C22_RoleOnceCounterSequential ==
    /\ gmOut # <<>> <=> gmState.messageId # ""
    /\ gmOut # <<>> => gmOut[1].kind = "role"
    /\ \A i \in 2..Len(gmOut) : gmOut[i].kind # "role"
    /\ Len(gmToolDeltas) = gmHist.functionCalls
    /\ \A i \in 1..Len(gmToolDeltas) : gmToolDeltas[i].tool_call.index = i - 1
    /\ gmState.messageId # "" => gmState.functionIndex = gmHist.functionCalls

\* three function calls over at least two events, the last one on a part
\* with a thought signature
C22_Witness ==
    /\ gmHist.functionCalls >= 3
    /\ Len(gmToolDeltas) >= 3
    /\ \E i \in 1..Len(gmHist.last.parts) :
          gmHist.last.parts[i].thoughtSignature /\ gmHist.last.parts[i].fcName # ""
    /\ gmOut[1].kind = "role"

\* C23: after a call whose event carries usage metadata, with or without a
\* candidate, state.usage has prompt_tokens = promptTokenCount +
\* thoughtsTokenCount, completion_tokens = candidatesTokenCount,
\* total_tokens = totalTokenCount (a missing count is 0), and a
\* reasoning_tokens breakdown exactly when thoughtsTokenCount > 0.
C23_UsageAccumulated ==
    gmHist.received /\ gmHist.last.usageMetadata.set =>
        LET u == gmHist.last.usageMetadata
            count(n) == IF n = -1 THEN 0 ELSE n
        IN /\ gmState.usage.set
           /\ gmState.usage.prompt_tokens = count(u.promptTokenCount) + count(u.thoughtsTokenCount)
           /\ gmState.usage.completion_tokens = count(u.candidatesTokenCount)
           /\ gmState.usage.total_tokens = count(u.totalTokenCount)
           /\ gmState.usage.reasoning_tokens =
                IF u.thoughtsTokenCount > 0 THEN u.thoughtsTokenCount ELSE -1

(***************************************************************************)
(* openaiToClaude and openaiToGeminiCLI: tools                             *)
(***************************************************************************)
\* the names of the tools of a body that have one, in their order: the
\* name of the function object of a function tool, a tool's own name
\* otherwise
RECURSIVE rqToolNames(_)
rqToolNames(tools) ==
    IF tools = <<>> THEN <<>>
    ELSE LET tool == Head(tools)
             name == IF tool.type = "function" /\ tool.hasFunction
                     THEN tool.function.name ELSE tool.own.name
         IN (IF name # "" THEN <<name>> ELSE <<>>) \o rqToolNames(Tail(tools))

\* the names of the function tools of a body that have one, in their order
RECURSIVE gqToolNames(_)
gqToolNames(tools) ==
    IF tools = <<>> THEN <<>>
    ELSE (IF Head(tools).type = "function" /\ Head(tools).hasFunction
             /\ Head(tools).function.name # ""
          THEN <<Head(tools).function.name>> ELSE <<>>) \o gqToolNames(Tail(tools))

\* C24: a tool definition without a name is dropped: result.tools of
\* openaiToClaude and the functionDeclarations of openaiToGeminiBase have no
\* entry without a name, and hold the named tools in their original order.
C24_NamelessToolsDropped ==
    /\ rqDone /\ rqOpts.tools.has =>
          /\ \A i \in 1..Len(rqRest.tools.list) : rqRest.tools.list[i].name # ""
          /\ [i \in 1..Len(rqRest.tools.list) |-> rqRest.tools.list[i].name]
                = rqToolNames(rqOpts.tools.list)
    /\ gqDone /\ gqBody.tools.has =>
          /\ \A i \in 1..Len(gqResult.tools.functionDeclarations) :
                gqResult.tools.functionDeclarations[i].name # ""
          /\ [i \in 1..Len(gqResult.tools.functionDeclarations) |->
                gqResult.tools.functionDeclarations[i].name]
                = gqToolNames(gqBody.tools.list)

(***************************************************************************)
(* openaiToGeminiCLI: the thinking budget                                  *)
(***************************************************************************)
\* an explicit budget token count is provided: thinking is enabled with a
\* positive budget_tokens
gqExplicitBudget == gqBody.thinking.type = "enabled" /\ gqBody.thinking.budget_tokens > 0

gqEffortBudget ==
    CASE gqBody.reasoning_effort = "low" -> 1024
      [] gqBody.reasoning_effort = "medium" -> 8192
      [] gqBody.reasoning_effort = "high" -> 32768
      [] OTHER -> 8192

\* C25 as stated: the thinking budget is the explicit budget token count
\* when one is provided, else 1024, 8192 or 32768 for effort low, medium or
\* high, and 8192 when neither a budget nor an effort is given.
C25_ThinkingBudget ==
    gqDone /\ gqBody.model # "" =>
        LET thinkingConfig == gqResult.generationConfig.thinkingConfig
        IN /\ gqExplicitBudget =>
                thinkingConfig.set /\ thinkingConfig.thinkingBudget = gqBody.thinking.budget_tokens
           /\ ~gqExplicitBudget /\ gqBody.reasoning_effort \in {"low", "medium", "high"} =>
                thinkingConfig.set /\ thinkingConfig.thinkingBudget = gqEffortBudget
           /\ ~gqExplicitBudget /\ gqBody.reasoning_effort = "" =>
                thinkingConfig.set /\ thinkingConfig.thinkingBudget = 8192

\* C25, amended: the thinking budget is the explicit budget token count
\* when thinking is enabled with a positive budget (it wins over an effort),
\* else 1024, 8192 or 32768 for effort low, medium or high and 8192 for any
\* other effort that is given; when neither a budget nor an effort is given
\* no thinking config is set.
C25_ThinkingBudgetWhenAsked ==
    gqDone /\ gqBody.model # "" =>
        LET thinkingConfig == gqResult.generationConfig.thinkingConfig
        IN /\ gqExplicitBudget =>
                thinkingConfig = [set |-> TRUE, thinkingBudget |-> gqBody.thinking.budget_tokens,
                                  include_thoughts |-> TRUE]
           /\ ~gqExplicitBudget /\ gqBody.reasoning_effort # "" =>
                thinkingConfig = [set |-> TRUE, thinkingBudget |-> gqEffortBudget,
                                  include_thoughts |-> TRUE]
           /\ ~gqExplicitBudget /\ gqBody.reasoning_effort = "" => ~thinkingConfig.set

\* a call with both an explicit budget and an effort has returned
C25_Witness ==
    /\ gqDone
    /\ gqExplicitBudget
    /\ gqBody.reasoning_effort = "low"
    /\ gqResult.generationConfig.thinkingConfig.thinkingBudget = 2048

(***************************************************************************)
(* openaiToGeminiBase: contents                                            *)
(***************************************************************************)
\* the ids of the function tool calls of a message, in order
gqCallIds(msg) ==
    LET calls == SelectSeq(msg.tool_calls, LAMBDA tc : tc.type = "function")
    IN [i \in 1..Len(calls) |-> calls[i].id]

\* the number of contents entries a message accounts for
gqEntries(messages, msg) ==
    CASE msg.role = "tool" -> 0
      [] msg.role = "system" /\ Len(messages) > 1 -> 0
      [] msg.role \in {"user", "system"} ->
            IF Len(convertOpenAIContentToParts(msg)) > 0 THEN 1 ELSE 0
      [] msg.role = "assistant" ->
            (IF Len(gqCallIds(msg)) > 0 THEN 2
             ELSE IF msg.ctype # "none" /\ gqExtractTextContent(msg) # "" THEN 1 ELSE 0)

RECURSIVE gqEntriesBefore(_, _)
gqEntriesBefore(messages, k) ==
    IF k = 1 THEN 0
    ELSE gqEntriesBefore(messages, k - 1) + gqEntries(messages, messages[k - 1])

\* the contents of the tool messages with tool_call_id fid
gqToolContents(messages, fid) ==
    {messages[i].text : i \in {j \in 1..Len(messages) :
                                  messages[j].role = "tool" /\ messages[j].tool_call_id = fid}}

\* C26: no tool-role message produces a contents entry of its own; each
\* assistant message with function tool calls produces one model-role entry
\* whose functionCall parts each carry the thought-signature stamp,
\* immediately followed by one user-role entry whose functionResponse parts
\* carry that message's call ids in the same order, each response taken
\* from the tool message with that call id, or the default {} when there
\* is none.
C26_ToolCallsAnswered ==
    gqDone /\ gqBody.model # "" =>
        LET messages == gqBody.messages
            contents == gqResult.contents
        IN /\ Len(contents) = gqEntriesBefore(messages, Len(messages) + 1)
           /\ \A k \in 1..Len(messages) :
                 messages[k].role = "assistant" /\ Len(gqCallIds(messages[k])) > 0 =>
                    LET j == gqEntriesBefore(messages, k) + 1
                        ids == gqCallIds(messages[k])
                        calls == SelectSeq(contents[j].parts, LAMBDA q : q.kind = "functionCall")
                        answers == contents[j + 1].parts
                    IN /\ contents[j].role = "model"
                       /\ [i \in 1..Len(calls) |-> calls[i].id] = ids
                       /\ \A i \in 1..Len(calls) :
                             calls[i].thoughtSignature = DEFAULT_THINKING_GEMINI_SIGNATURE
                       /\ \A i \in 1..Len(contents[j].parts) :
                             contents[j].parts[i].kind \in {"text", "functionCall"}
                       /\ contents[j + 1].role = "user"
                       /\ [i \in 1..Len(answers) |-> answers[i].id] = ids
                       /\ \A i \in 1..Len(answers) :
                             /\ answers[i].kind = "functionResponse"
                             /\ IF gqToolContents(messages, ids[i]) = {}
                                THEN answers[i].response =
                                        [wrapped |-> FALSE, parsed |-> TRUE, value |-> "{}"]
                                ELSE \E content \in gqToolContents(messages, ids[i]) :
                                        answers[i].response = gqResponse(content)

\* a conversation with an assistant message of two function calls, one
\* answered by a tool message and one not, has been translated
C26_Witness ==
    /\ gqDone
    /\ \E k \in 1..Len(gqBody.messages) :
          /\ gqBody.messages[k].role = "assistant"
          /\ Len(gqCallIds(gqBody.messages[k])) = 2
          /\ \E i, j \in 1..2 :
                /\ gqToolContents(gqBody.messages, gqCallIds(gqBody.messages[k])[i]) = {}
                /\ gqToolContents(gqBody.messages, gqCallIds(gqBody.messages[k])[j]) # {}
    /\ \E i \in 1..Len(gqResult.contents) :
          /\ gqResult.contents[i].role = "user"
          /\ Len(gqResult.contents[i].parts) = 2
          /\ gqResult.contents[i].parts[1].kind = "functionResponse"

(***************************************************************************)
(* openaiToClaude: the merged messages                                     *)
(***************************************************************************)
\* the positions <<message, block>> of the result blocks with cache_control
rqMarked ==
    UNION {{<<i, j>> : j \in {n \in 1..Len(rqResult[i].content) :
                                 rqResult[i].content[n].cache_control}} :
           i \in 1..Len(rqResult)}

rqAssistantOut == {i \in 1..Len(rqResult) : rqResult[i].role = "assistant"}

\* C27: at most one block across all output messages carries cache_control:
\* the final block of the last output message with role assistant (every
\* output message has blocks); when there is no such message no block
\* carries cache_control.
C27_OneCacheMark ==
    rqDone =>
        /\ Cardinality(rqMarked) <= 1
        /\ IF rqAssistantOut = {} THEN rqMarked = {}
           ELSE LET last == CHOOSE i \in rqAssistantOut : \A n \in rqAssistantOut : n <= i
                IN rqMarked = {<<last, Len(rqResult[last].content)>>}

\* a result with two assistant messages, a user message after the last of
\* them, and more than one block in the marked message
C27_Witness ==
    /\ rqDone
    /\ Cardinality(rqAssistantOut) >= 2
    /\ rqResult[Len(rqResult)].role = "user"
    /\ \E p \in rqMarked : p[2] >= 2

\* the blocks of a sequence of messages, one after the other, without
\* their cache_control
RECURSIVE rqAllBlocks(_)
rqAllBlocks(msgs) ==
    IF msgs = <<>> THEN <<>>
    ELSE [i \in 1..Len(Head(msgs)) |-> [Head(msgs)[i] EXCEPT !.cache_control = FALSE]]
         \o rqAllBlocks(Tail(msgs))

\* the blocks each non-system message of the body normalizes to
rqSourceBlocks ==
    [k \in 1..Len(rqNonSystem(rqBody)) |-> getContentBlocksFromMessage(rqNonSystem(rqBody)[k])]

rqOutBlocks == [i \in 1..Len(rqResult) |-> rqResult[i].content]

rqCount(s, b) == Cardinality({i \in 1..Len(s) : s[i] = b})

IsSuffix(a, b) ==
    Len(a) <= Len(b) /\ \A i \in 1..Len(a) : a[i] = b[Len(b) - Len(a) + i]

\* C29: every block produced by normalizing a non-system message is in the
\* output exactly once (as many copies of a block in the output messages as
\* the source messages produced), and an output message that holds a
\* tool_use ends with the blocks of the source message that produced it:
\* no block of a later message joins it; there are as many such output
\* messages as source messages with a tool_use.
C29_BlocksKeptOnce ==
    rqDone =>
        LET source == rqSourceBlocks
            sourceBlocks == rqAllBlocks(source)
            outBlocks == rqAllBlocks(rqOutBlocks)
            withToolUse == {k \in 1..Len(source) : rqHasType(source[k], "tool_use")}
        IN /\ Len(outBlocks) = Len(sourceBlocks)
           /\ \A b \in {sourceBlocks[i] : i \in 1..Len(sourceBlocks)} :
                 rqCount(outBlocks, b) = rqCount(sourceBlocks, b)
           /\ \A i \in 1..Len(rqResult) :
                 rqHasType(rqResult[i].content, "tool_use") =>
                    \E k \in withToolUse :
                       IsSuffix(source[k], rqAllBlocks(<<rqResult[i].content>>))
           /\ Cardinality({i \in 1..Len(rqResult) : rqHasType(rqResult[i].content, "tool_use")})
                 = Cardinality(withToolUse)

\* a text message, a message with a tool_use and a message after it have
\* been merged: the first two share an output message, the third has its own
C29_Witness ==
    /\ rqDone
    /\ Len(rqBody) >= 3
    /\ \E i \in 1..(Len(rqResult) - 1) :
          /\ rqResult[i].role = "assistant"
          /\ Len(rqResult[i].content) >= 3
          /\ rqResult[i].content[1].type = "text"
          /\ rqResult[i].content[Len(rqResult[i].content)].type = "tool_use"
          /\ rqResult[i + 1].role = "assistant"

rqMappedRole(msg) == IF msg.role \in {"user", "tool"} THEN "user" ELSE "assistant"

\* C30: no output message has an empty content list; every block of an
\* output message comes from a source message whose mapped role (user for
\* user and tool, assistant otherwise) is the role of the output message;
\* a source message that normalizes to no block yields no output message:
\* there is at most one output message for the tool_result blocks and one
\* for the other blocks of each source message.
C30_NoEmptyOneRole ==
    rqDone =>
        LET source == rqSourceBlocks
            nonSystemMessages == rqNonSystem(rqBody)
            ofRole(role) ==
                UNION {{source[k][n] : n \in 1..Len(source[k])} :
                       k \in {m \in 1..Len(source) : rqMappedRole(nonSystemMessages[m]) = role}}
            userBlocks == ofRole("user")
            assistantBlocks == ofRole("assistant")
        IN /\ \A i \in 1..Len(rqResult) : Len(rqResult[i].content) > 0
           /\ \A i \in 1..Len(rqResult) : \A j \in 1..Len(rqResult[i].content) :
                 [rqResult[i].content[j] EXCEPT !.cache_control = FALSE]
                    \in (IF rqResult[i].role = "user" THEN userBlocks ELSE assistantBlocks)
           /\ \A i \in 1..Len(rqResult) : rqResult[i].role \in {"user", "assistant"}
           /\ Len(rqResult) <=
                 Cardinality({k \in 1..Len(source) : rqHasType(source[k], "tool_result")})
                 + Cardinality({k \in 1..Len(source) :
                                   \E n \in 1..Len(source[k]) : source[k][n].type # "tool_result"})

\* a request with a message that normalizes to no block between messages
\* of the two roles has been translated
C30_Witness ==
    /\ rqDone
    /\ \E k \in 2..(Len(rqSourceBlocks) - 1) :
          /\ rqSourceBlocks[k] = <<>>
          /\ rqSourceBlocks[k - 1] # <<>>
          /\ rqSourceBlocks[k + 1] # <<>>
          /\ rqMappedRole(rqNonSystem(rqBody)[k - 1]) # rqMappedRole(rqNonSystem(rqBody)[k + 1])
    /\ Len(rqResult) >= 2

(***************************************************************************)
(* openaiToClaude: what a call does to its arguments                       *)
(***************************************************************************)
\* C28: openaiToClaude leaves the source body unchanged: after each call
\* the body (its messages, their content parts, its tools, its tool_choice)
\* is the body the first call was given, every object a call assigned to,
\* the cache_control marks among them, being one the call itself made and
\* none of those the result shares with the body; and a second call on the
\* body returns what the first returned.
C28_BodyUntouched ==
    rqCalls.count >= 1 =>
        /\ <<rqBody, rqOpts>> = rqCalls.given
        /\ \A o \in rqCalls.assigned : ~rqIsBodyObject(o)
        /\ rqCalls.assigned \cap rqCalls.shared = {}
        /\ rqCalls.count = 2 => <<rqResult, rqRest>> = rqCalls.first

\* a body whose last assistant message has an array content with a
\* tool_use part was translated twice: the result holds the part's input,
\* an object of the body, in a block that got the cache_control mark
C28_Witness ==
    /\ rqCalls.count = 2
    /\ rqMarked # {}
    /\ \E o \in rqCalls.assigned : o[1] = "literal" /\ <<"input", o[2], o[3]>> \in rqCalls.shared
    /\ \E k \in 1..Len(rqBody) :
          /\ rqBody[k].role = "assistant" /\ rqBody[k].ctype = "array"
          /\ \A n \in (k + 1)..Len(rqBody) : rqBody[n].role # "assistant"

====
